---- MODULE Spec2Model ----
(***************************************************************************)
(* Model of the Challenge 12 header reconstructor of buidlguidl-ctf        *)
(* (packages/scripts/src/solveChallenge12.ts): the byte helpers            *)
(* toFieldBytes and toNonceBytes, and the search bruteforceRLP.            *)
(*                                                                         *)
(* JavaScript values are records [k, n, s]: k is the type tag, n the       *)
(* integer of a bigint/number, s the UTF-16 code units of a string or the  *)
(* bytes of a Uint8Array.  Byte strings are sequences over 0..255.  Where  *)
(* a string or byte string is held in the state it is held run-length      *)
(* packed (pack/unpack), <<value, count>> pairs, to keep states small.     *)
(* keccak256 is modelled as an ideal (collision-free) hash: the record     *)
(* [keccak |-> preimage].                                                  *)
(*                                                                         *)
(* Further specifications in this module: SpecBytes (one helper call),     *)
(* SpecCh12 (the Challenge 12 script interleaved with block production),   *)
(* SpecScripts (one run of any challenge script, from its command line to  *)
(* its exit) and SpecRunner (the runner of all twelve challenges).         *)
(***************************************************************************)
EXTENDS Integers, Sequences, FiniteSets, TLC

VARIABLES
  \* ---- bruteforceRLP (one call) ----
  block,                    \* the block returned by publicClient.getBlock
  targetHash,               \* block.hash
  logsBloom,                \* local logsBloom (after whitespace removal)
  baseFields,               \* local baseFields
  rlpBytes,                 \* the encoding returned (local rlpBytes of the match)
  truePattern,              \* ghost: the optional fields the chain hashed, or {"fabricated"}
  availableOptionalFields,  \* local availableOptionalFields: <<[name, value]>>
  priorityMasks,            \* local priorityMasks
  pidx,                     \* index of the priority loop (1-based)
  mask,                     \* counter of the exhaustive loop
  attempts,                 \* masks handed to toRlp/keccak256 so far, in order
  pc,                       \* position in bruteforceRLP
  result,                   \* outcome of the call
  \* ---- helper calls (toFieldBytes / toNonceBytes applied to one value) ----
  arg,                      \* the argument
  fn,                       \* "none" before the call, then the helper's name
  ret,                      \* what the helper returned or threw
  \* ---- the Challenge 12 script (solveChallenge12, executePreMint, executeMint) ----
  isLocal,                  \* --local was given
  height,                   \* chain: number of the latest block
  recorded,                 \* Challenge12 contract: blockNumber[wallet], 0 when none
  minted,                   \* chain: the wallet holds the flag of Challenge 12
  pc12,                     \* position of the script
  preMintBlock,             \* local preMintBlock
  currentBlock,             \* local currentBlock of executeMint
  toMine,                   \* evm_mine requests left in the local mining loop
  foundRlp,                 \* what bruteforceRLP gave to executeMint
  calls,                    \* requests made so far: <<[op, at, arg]>>, at = height then
  produced,                 \* number of block-production steps of the chain so far
  exitCode,                 \* exit code of the process, -1 while it runs
  \* ---- one run of a challenge script, from its command line to its exit ----
  script,                   \* number of the challenge whose script runs, 0 when none
  argv,                     \* the options given, a subset of {"--local", "--help"}
  envKey,                   \* __RUNTIME_DEPLOYER_PRIVATE_KEY after dotenv.config()
  artifacts,                \* the compiled hardhat artifacts are on disk
  pcS,                      \* position of the script
  site,                     \* index of the next chain call in the script's table
  chain,                    \* TARGET_CHAIN of the clients
  signer,                   \* key behind myWalletAccount
  issued,                   \* chain calls made so far: {[line, kind, chain, signer]}
  mintedSeen,               \* a call has failed with the already-minted message
  sentAfterMinted,          \* lines of the transactions submitted after such a failure
  lastOutcome,              \* outcome of the latest chain call
  usage,                    \* the usage text was printed
  scriptExit,               \* exit code of the process, -1 while it runs
  \* ---- the runner of all challenges (solveAllChallenges) ----
  rArgv,                    \* the options given to the runner
  pcR,                      \* position of the runner
  loopAt,                   \* position of the for loop in CHALLENGES, 0 before it
  results,                  \* local results: <<[number, success]>>
  spawned,                  \* children spawned so far: <<[number, args]>>
  child,                    \* number of the challenge whose child runs, 0 when none
  confirmed,                \* the operator accepted the initial confirmation
  allCompleted,             \* the 'All challenges completed' message was printed
  runnerUsage,              \* the runner's usage text was printed
  runnerExit,               \* exit code of the runner, -1 while it runs
  answer,                   \* the latest answer to 'Continue?', "none" before any
  summaryPrinted,           \* the result summary was printed
  \* ---- the CREATE2 salt search of Challenge 11 (solveChallenge11) ----
  walletLastByte,           \* last byte of myWalletAccount.address
  addrLastByte,             \* salt |-> last byte of create2Addr(factory, salt, hash)
  saltAt,                   \* the loop counter i
  saltsTried,               \* the salts create2Addr was computed for, in order
  foundSalt,                \* foundSalt, -1 while undefined
  foundAddr,                \* foundAddr as the salt it was computed from, -1 undefined
  sent11,                   \* transactions sent: <<[op, salt]>>
  deployStatus,             \* status of the receipt of deploy, "none" before it
  pc11,                     \* position of the script
  exit11,                   \* the script has thrown (1), finished (0), runs (-1)
  \* ---- the reentrancy contracts of Challenge 5 ----
  contract5,                \* "Attacker" (Challenge5Attacker) or "Solution"
  counter,                  \* the storage variable counter
  counterBefore,            \* counter at the start of the running transaction
  depth5,                   \* claimPoints frames on the call stack
  claims5,                  \* claimPoints invocations of the latest attack()
  fromCallback5,            \* those of them made by receive() or fallback()
  pc5,                      \* position of the running transaction
  last5,                    \* how the latest attack() ended
  attacks5,                 \* attack() transactions so far
  \* ---- the password mask of Challenge 9 (solveChallenge9) ----
  passwordSlot,             \* getStorageAt(slot 1): 32 bytes, most significant first
  countSlot,                \* getStorageAt(slot 2): 32 bytes, most significant first
  sent9,                    \* the argument of mintFlag as code units, <<>> before
  pc9,                      \* position of the script
  \* ---- the final attempts of Challenge 6 (solveChallenge6) ----
  optimalGasLimit,          \* optimalGasLimit after step 1
  innerSucceeds,            \* gas limit |-> Challenge6.mintFlag succeeds with it
  gasAt,                    \* position of the for loop in finalGasLimits
  tried6,                   \* gas limits solveWithGas was sent with, in order
  solveStatus,              \* status of the latest solveWithGas receipt
  success6,                 \* Challenge6Solution.success: result of the inner call
  minted6,                  \* the flag of Challenge 6 is minted
  declared6,                \* 'Challenge 6 complete!' was printed
  pc6,                      \* position of the script
  exit6,                    \* exit code of the script, -1 while it runs
  \* ---- the Transfer-log scan of Challenge 10 (solveChallenge10) ----
  isLocal10,                \* --local was given
  currentBlock10,           \* getBlockNumber() of line 176
  lookbackBlocks,           \* LOOKBACK_BLOCKS, or 5_000_000 when it is not set
  transfer1At,              \* block of the Transfer of the Challenge 1 token, -1 if none
  transfer9At,              \* block of the Transfer of the Challenge 9 token, -1 if none
  fromBlock,                \* the loop variable fromBlock
  smallFrom,                \* the loop variable smallFrom of the retry
  queried,                  \* getLogs requests so far: <<[from, to, ok]>>
  challenge1TokenId,        \* challenge1TokenId, -1 while null
  challenge9TokenId,        \* challenge9TokenId, -1 while null
  sent10,                   \* safeTransferFrom was sent
  pc10,                     \* position of the script
  exit10                    \* exit code of the script, -1 while it runs

rlpVars == <<block, targetHash, logsBloom, baseFields, rlpBytes, truePattern,
             availableOptionalFields, priorityMasks, pidx, mask, attempts, pc, result>>

helperVars == <<arg, fn, ret>>

ch12Vars == <<isLocal, height, recorded, minted, pc12, preMintBlock, currentBlock,
              toMine, foundRlp, calls, produced, exitCode>>

cliVars == <<script, argv, envKey, artifacts, pcS, site, chain, signer, issued,
             mintedSeen, sentAfterMinted, lastOutcome, usage, scriptExit>>

\* the variables outside bruteforceRLP and the byte helpers
runnerVars == <<rArgv, pcR, loopAt, results, spawned, child, confirmed, allCompleted,
                runnerUsage, runnerExit, answer, summaryPrinted>>

scriptVars == <<ch12Vars, cliVars, runnerVars>>

saltVars == <<walletLastByte, addrLastByte, saltAt, saltsTried, foundSalt, foundAddr,
              sent11, deployStatus, pc11, exit11>>

reentVars == <<contract5, counter, counterBefore, depth5, claims5, fromCallback5, pc5,
               last5, attacks5>>

\* the variables of the models of single steps of the other scripts
maskVars == <<passwordSlot, countSlot, sent9, pc9>>

gasVars == <<optimalGasLimit, innerSucceeds, gasAt, tried6, solveStatus, success6,
             minted6, declared6, pc6, exit6>>

scanVars == <<isLocal10, currentBlock10, lookbackBlocks, transfer1At, transfer9At,
              fromBlock, smallFrom, queried, challenge1TokenId, challenge9TokenId,
              sent10, pc10, exit10>>

toolVars == <<saltVars, reentVars, maskVars, gasVars, scanVars>>

\* what the actions of each of these models leave alone
saltRest == <<rlpVars, helperVars, scriptVars, reentVars, maskVars, gasVars, scanVars>>
reentRest == <<rlpVars, helperVars, scriptVars, saltVars, maskVars, gasVars, scanVars>>
maskRest == <<rlpVars, helperVars, scriptVars, saltVars, reentVars, gasVars, scanVars>>
gasRest == <<rlpVars, helperVars, scriptVars, saltVars, reentVars, maskVars, scanVars>>
scanRest == <<rlpVars, helperVars, scriptVars, saltVars, reentVars, maskVars, gasVars>>

vars == <<rlpVars, helperVars, scriptVars, toolVars>>

-----------------------------------------------------------------------------
(* Bounds of the model *)

\* optional baseFeePerGas values 0..MaxBaseFee
MaxBaseFee == 1
\* logsBloom literals of BloomBytes-MaxBloomDelta .. BloomBytes+MaxBloomDelta bytes
MaxBloomDelta == 1
\* helper arguments: integers -MaxNeg..MaxNum (and a few of three and four bytes)
MaxNum == 300
MaxNeg == 2
\* helper arguments: every string over Alphabet of at most MaxStrLen code units
MaxStrLen == 4
\* helper arguments: nonce literals with a run of 0..MaxNonceFill equal digits
MaxNonceFill == 16

-----------------------------------------------------------------------------
(* JavaScript values *)

Rep(c, m) == [i \in 1..m |-> c]

\* run-length form of a sequence, and back
pack(xs) ==
  LET n  == Len(xs)
      ss == SelectSeq([i \in 1..n |-> i], LAMBDA i : i = 1 \/ xs[i] # xs[i - 1])
  IN  [k \in 1..Len(ss) |->
         <<xs[ss[k]], (IF k = Len(ss) THEN n + 1 ELSE ss[k + 1]) - ss[k]>>]

RECURSIVE unpack(_)
unpack(rs) ==
  IF rs = <<>> THEN <<>> ELSE Rep(rs[1][1], rs[1][2]) \o unpack(Tail(rs))

Undefined == [k |-> "undefined", n |-> 0, s |-> <<>>]
Null      == [k |-> "null", n |-> 0, s |-> <<>>]
Num(i)    == [k |-> "bigint", n |-> i, s |-> <<>>]
Str(cs)   == [k |-> "string", n |-> 0, s |-> pack(cs)]
U8(bs)    == [k |-> "Uint8Array", n |-> 0, s |-> pack(bs)]
\* the code units of a string value, the bytes of a Uint8Array value
chars(v)  == unpack(v.s)

\* a ?? b
Coalesce(a, b) == IF a.k \in {"undefined", "null"} THEN b ELSE a

\* the result of a helper: bytes, or a thrown error
Ok(bs)     == [ok |-> TRUE, bytes |-> bs, err |-> ""]
Throw(msg) == [ok |-> FALSE, bytes |-> <<>>, err |-> msg]

\* code units: '0' = 48 .. '9' = 57, 'a' = 97 .. 'f' = 102, 'x' = 120, ' ' = 32
HexDigit(d) == IF d < 10 THEN 48 + d ELSE 87 + d
\* "0x" followed by the digits of the nibble sequence ns
HexLit(ns) == <<48, 120>> \o [i \in 1..Len(ns) |-> HexDigit(ns[i])]

\* viem charCodeToBase16: the value of a hex digit, -1 (undefined) otherwise
charCodeToBase16(c) ==
  IF c >= 48 /\ c <= 57 THEN c - 48
  ELSE IF c >= 65 /\ c <= 70 THEN c - 55
  ELSE IF c >= 97 /\ c <= 102 THEN c - 87
  ELSE -1

\* viem hexToBytes(hex): drops the first two code units, pads an odd digit
\* string with a leading '0', and throws on a code unit that is no hex digit
hexToBytes(hex) ==
  LET sliced    == SubSeq(hex, 3, Len(hex))
      hexString == IF Len(sliced) % 2 = 1 THEN <<48>> \o sliced ELSE sliced
      length    == Len(hexString) \div 2
  IN  IF \E j \in 1..Len(hexString) : charCodeToBase16(hexString[j]) = -1
      THEN Throw("Invalid byte sequence")
      ELSE Ok([i \in 1..length |->
                 charCodeToBase16(hexString[2*i - 1]) * 16
                 + charCodeToBase16(hexString[2*i])])

\* bigint.toString(16) of n > 0: lower-case digits, no leading zero
RECURSIVE toString16(_)
toString16(n) ==
  IF n < 16 THEN <<HexDigit(n)>>
  ELSE Append(toString16(n \div 16), HexDigit(n % 16))

\* new TextEncoder().encode(s) for code points below U+0800
RECURSIVE TextEncode(_)
TextEncode(cs) ==
  IF cs = <<>> THEN <<>>
  ELSE LET c == Head(cs)
       IN  (IF c < 128 THEN <<c>>
            ELSE <<192 + (c \div 64), 128 + (c % 64)>>) \o TextEncode(Tail(cs))

startsWith0x(cs) == Len(cs) >= 2 /\ cs[1] = 48 /\ cs[2] = 120

\* the mutant of toFieldBytes that lacks the `bigintValue === 0n` branch
toFieldBytesNoZeroCase(value) ==
  IF value.k \in {"undefined", "null"} THEN Throw("Undefined value passed to toFieldBytes")
  ELSE IF value.k = "bigint" THEN
    IF value.n < 0 THEN Throw("Negative values not supported")
    ELSE hexToBytes(<<48, 120>> \o toString16(value.n))
  ELSE IF value.k = "string" THEN
    IF chars(value) \in {<<>>, <<48, 120>>, <<48, 120, 48>>, <<48, 120, 48, 48>>}
    THEN Ok(<<>>)
    ELSE IF startsWith0x(chars(value)) THEN hexToBytes(chars(value))
    ELSE Ok(TextEncode(chars(value)))
  ELSE Ok(chars(value))

\* toFieldBytes(value)
toFieldBytes(value) ==
  IF value.k \in {"undefined", "null"} THEN Throw("Undefined value passed to toFieldBytes")
  ELSE IF value.k = "bigint" THEN
    IF value.n = 0 THEN Ok(<<>>)
    ELSE IF value.n < 0 THEN Throw("Negative values not supported")
    ELSE LET hex    == toString16(value.n)
             padded == IF Len(hex) % 2 = 0 THEN hex ELSE <<48>> \o hex
         IN  hexToBytes(<<48, 120>> \o padded)
  ELSE IF value.k = "string" THEN
    IF chars(value) \in {<<>>, <<48, 120>>, <<48, 120, 48>>, <<48, 120, 48, 48>>}
    THEN Ok(<<>>)
    ELSE IF startsWith0x(chars(value)) THEN hexToBytes(chars(value))
    ELSE Ok(TextEncode(chars(value)))
  ELSE Ok(chars(value))

\* the mutant of toNonceBytes that pads a short nonce on the right
toNonceBytesPadRight(nonce) ==
  IF nonce.k \in {"undefined", "null"} \/ chars(nonce) = <<>>
     \/ chars(nonce) = HexLit(Rep(0, 16))
  THEN Ok(Rep(0, 8))
  ELSE LET r == hexToBytes(chars(nonce))
       IN  IF ~r.ok THEN r
           ELSE IF Len(r.bytes) = 8 THEN r
           ELSE IF Len(r.bytes) < 8
                THEN Ok(r.bytes \o Rep(0, 8 - Len(r.bytes)))
                ELSE Ok(SubSeq(r.bytes, 1, 8))

\* toNonceBytes(nonce)
toNonceBytes(nonce) ==
  IF nonce.k \in {"undefined", "null"} \/ chars(nonce) = <<>>
     \/ chars(nonce) = HexLit(Rep(0, 16))
  THEN hexToBytes(HexLit(Rep(0, 16)))
  ELSE LET r == hexToBytes(chars(nonce))
       IN  IF ~r.ok THEN r
           ELSE IF Len(r.bytes) = 8 THEN r
           ELSE IF Len(r.bytes) < 8
                THEN Ok(Rep(0, 8 - Len(r.bytes)) \o r.bytes)
                ELSE Ok(SubSeq(r.bytes, 1, 8))

-----------------------------------------------------------------------------
(* RLP and hashing (viem toRlp, keccak256) *)

\* big-endian bytes of a length n > 0 (viem toRlp's length prefix)
RECURSIVE lengthBytes(_)
lengthBytes(n) ==
  IF n < 256 THEN <<n>> ELSE Append(lengthBytes(n \div 256), n % 256)

\* RLP of one byte string
rlpItem(bs) ==
  IF Len(bs) = 1 /\ bs[1] < 128 THEN bs
  ELSE IF Len(bs) <= 55 THEN <<128 + Len(bs)>> \o bs
  ELSE LET lb == lengthBytes(Len(bs))
       IN  <<183 + Len(lb)>> \o lb \o bs

RECURSIVE rlpConcat(_)
rlpConcat(items) ==
  IF items = <<>> THEN <<>>
  ELSE rlpItem(Head(items)) \o rlpConcat(Tail(items))

\* toRlp(headerList): RLP of a list of byte strings
toRlp(items) ==
  LET body == rlpConcat(items)
  IN  IF Len(body) <= 55 THEN <<192 + Len(body)>> \o body
      ELSE LET lb == lengthBytes(Len(body))
           IN  <<247 + Len(lb)>> \o lb \o body

\* keccak256 as an ideal hash: equal digests exactly for equal preimages
keccak256(bs) == [keccak |-> pack(bs)]

-----------------------------------------------------------------------------
(* bruteforceRLP *)

OptionalNames ==
  <<"baseFeePerGas", "withdrawalsRoot", "blobGasUsed", "excessBlobGas",
    "parentBeaconBlockRoot", "requestsHash">>

\* the length the logsBloom check demands
BloomBytes == 256

\* logsBloom.replace(/\s+/g, '')
removeWhitespace(cs) == SelectSeq(cs, LAMBDA c : c # 32)

\* default literals of the base field list
DefaultSha3Uncles ==
  HexLit(<<1,13,12,12,4,13,14,8, 13,14,12,7,5,13,7,10, 10,11,8,5,11,5,6,7,
           11,6,12,12,13,4,1,10, 13,3,1,2,4,5,1,11, 9,4,8,10,7,4,1,3,
           15,0,10,1,4,2,15,13, 4,0,13,4,9,3,4,7>>)
DefaultMiner == HexLit(<<4, 2>> \o Rep(0, 36) \o <<1, 1>>)
DefaultMixHash == HexLit(Rep(0, 64))
DefaultNonce == HexLit(Rep(0, 16))

\* the 15 results of the baseFields array literal, for block b and local logsBloom lb
baseFieldResults(b, lb) ==
  << toFieldBytes(b.parentHash),
     toFieldBytes(Coalesce(b.sha3Uncles, Str(DefaultSha3Uncles))),
     toFieldBytes(Coalesce(b.miner, Coalesce(b.coinbase, Str(DefaultMiner)))),
     toFieldBytes(b.stateRoot),
     toFieldBytes(b.transactionsRoot),
     toFieldBytes(b.receiptsRoot),
     toFieldBytes(lb),
     toFieldBytes(Coalesce(b.difficulty, Num(0))),
     toFieldBytes(b.number),
     toFieldBytes(b.gasLimit),
     toFieldBytes(b.gasUsed),
     toFieldBytes(b.timestamp),
     toFieldBytes(Coalesce(b.extraData, Str(<<48, 120>>))),
     toFieldBytes(Coalesce(b.mixHash, Str(DefaultMixHash))),
     toNonceBytes(Coalesce(b.nonce, Str(DefaultNonce))) >>

\* the first element of a result list that threw, 0 when none did
firstThrow(rs) ==
  IF \E i \in 1..Len(rs) : ~rs[i].ok
  THEN CHOOSE i \in 1..Len(rs) : ~rs[i].ok /\ \A j \in 1..(i - 1) : rs[j].ok
  ELSE 0

\* optionalFields.<name> !== undefined
isAvailable(v) == v.k # "undefined"

\* availableOptionalFields after the six conditional pushes
availableOf(b) ==
  LET idx == SelectSeq([i \in 1..Len(OptionalNames) |-> i],
                       LAMBDA i : isAvailable(b[OptionalNames[i]]))
  IN  [j \in 1..Len(idx) |->
         [name |-> OptionalNames[idx[j]], value |-> b[OptionalNames[idx[j]]]]]

\* Math.pow(2, availableOptionalFields.length)
totalCombinationsOf(avail) == 2 ^ Len(avail)

\* mask & (1 << i), i counted from 0
bitSet(m, i) == (m \div (2 ^ i)) % 2 = 1

\* the mutant of priorityMasksOf with the two priority patterns in the other order
priorityMasksAllFirst(avail) ==
  (IF totalCombinationsOf(avail) > 1 THEN <<totalCombinationsOf(avail) - 1>> ELSE <<>>)
  \o
  (IF \E i \in 1..Len(avail) : avail[i].name = "baseFeePerGas"
   THEN <<2 ^ ((CHOOSE i \in 1..Len(avail) :
                  avail[i].name = "baseFeePerGas"
                  /\ \A j \in 1..(i - 1) : avail[j].name # "baseFeePerGas") - 1)>>
   ELSE <<>>)

\* the mutant of priorityMasksOf without the baseFeePerGas-only fast path
priorityMasksNoBaseFee(avail) ==
  IF totalCombinationsOf(avail) > 1 THEN <<totalCombinationsOf(avail) - 1>> ELSE <<>>

\* priorityMasks: [1 << baseFeeIndex] when baseFeePerGas is available, then
\* [totalCombinations - 1] when totalCombinations > 1
priorityMasksOf(avail) ==
  (IF \E i \in 1..Len(avail) : avail[i].name = "baseFeePerGas"
   THEN <<2 ^ ((CHOOSE i \in 1..Len(avail) :
                  avail[i].name = "baseFeePerGas"
                  /\ \A j \in 1..(i - 1) : avail[j].name # "baseFeePerGas") - 1)>>
   ELSE <<>>)
  \o
  (IF totalCombinationsOf(avail) > 1 THEN <<totalCombinationsOf(avail) - 1>> ELSE <<>>)

\* the mutant of includedIdx that walks the available fields from the last to the first
includedIdxDescending(avail, m) ==
  LET up == SelectSeq([i \in 1..Len(avail) |-> i], LAMBDA i : bitSet(m, i - 1))
  IN  [j \in 1..Len(up) |-> up[Len(up) + 1 - j]]

\* the indices (1-based) a mask includes, in increasing order
includedIdx(avail, m) ==
  SelectSeq([i \in 1..Len(avail) |-> i], LAMBDA i : bitSet(m, i - 1))

\* the inner loop of one candidate: toFieldBytes of every included value, in order
includedResults(avail, m) ==
  LET idx == includedIdx(avail, m)
  IN  [j \in 1..Len(idx) |-> toFieldBytes(avail[idx[j]].value)]

includedNames(avail, m) ==
  LET idx == includedIdx(avail, m)
  IN  [j \in 1..Len(idx) |-> avail[idx[j]].name]

bytesOf(rs) == [i \in 1..Len(rs) |-> rs[i].bytes]

\* a list of byte strings, each packed, and back
packAll(bss) == [i \in 1..Len(bss) |-> pack(bss[i])]
unpackAll(pss) == [i \in 1..Len(pss) |-> unpack(pss[i])]

\* outcomes of the call
Pending == [kind |-> "pending", included |-> <<>>, err |-> ""]
Found(inc) == [kind |-> "rlp", included |-> inc, err |-> ""]
NotFoundResult == [kind |-> "null", included |-> <<>>, err |-> ""]
Thrown(msg) == [kind |-> "throw", included |-> <<>>, err |-> msg]

\* the mutant of invalidBloomLength that rejects only a logsBloom that is too long
invalidBloomLengthTooLong(bs) == Len(bs) > BloomBytes

\* line 211: bloomBytes.length !== 256
invalidBloomLength(bs) == Len(bs) # BloomBytes

\* the condition of the exhaustive loop: mask < totalCombinations
loopContinues(m, total) == m < total

-----------------------------------------------------------------------------
(* The blocks and target hashes the call is run on *)

\* a hash-like literal of 32 bytes, every digit d
HashLit(d) == Str(HexLit(Rep(d, 64)))

\* a logsBloom literal of m bytes
BloomLit(m) == Str(HexLit(Rep(0, 2 * m)))

\* a block of the chain client; the optional fields and logsBloom vary
BlockWith(bloom, bf, wr, bgu, ebg, pbr, rh) ==
  [ parentHash |-> HashLit(1), sha3Uncles |-> HashLit(2),
    miner |-> Undefined, coinbase |-> Undefined,
    stateRoot |-> HashLit(3), transactionsRoot |-> HashLit(4),
    receiptsRoot |-> HashLit(5), logsBloom |-> bloom,
    difficulty |-> Undefined, number |-> Num(1000), gasLimit |-> Num(30000000),
    gasUsed |-> Num(21000), timestamp |-> Num(1700000000),
    extraData |-> Undefined, mixHash |-> HashLit(6), nonce |-> Undefined,
    baseFeePerGas |-> bf, withdrawalsRoot |-> wr, blobGasUsed |-> bgu,
    excessBlobGas |-> ebg, parentBeaconBlockRoot |-> pbr, requestsHash |-> rh ]

BaseFeeValues == {Undefined, Null} \cup {Num(i) : i \in 0..MaxBaseFee}
\* blobGasUsed / excessBlobGas: absent, or 0 (a block without blobs)
BlobGasValues == {Undefined, Num(0)}

\* well-formed logsBloom, every combination of optional fields
RegularBlocks ==
  { BlockWith(BloomLit(BloomBytes), bf, wr, bgu, ebg, pbr, rh) :
      bf \in BaseFeeValues, wr \in {Undefined, Null, HashLit(7)},
      bgu \in BlobGasValues, ebg \in BlobGasValues,
      pbr \in {Undefined, HashLit(8)}, rh \in {Undefined, HashLit(9)} }

\* the logsBloom values other than the plain 256-byte literal
OddBlooms ==
  { BloomLit(m) : m \in (BloomBytes - MaxBloomDelta)..(BloomBytes + MaxBloomDelta) }
  \cup { Undefined, Null, Str(<<48, 120>>),
         Str(<<48, 120, 32>> \o Rep(48, 2 * BloomBytes)),
         Str(<<48, 120>> \o Rep(120, 2 * BloomBytes)) }

OddBloomBlocks ==
  { BlockWith(bl, bf, Undefined, Undefined, Undefined, Undefined, Undefined) :
      bl \in OddBlooms, bf \in {Undefined, Num(0)} }

Blocks == RegularBlocks \cup OddBloomBlocks

\* the header the chain hashed: the mandatory fields, then the fields of pattern
\* P (a set of optional names with encodable values) in canonical order
headerOf(b, P) ==
  LET lb   == IF b.logsBloom.k = "string"
              THEN Str(removeWhitespace(chars(b.logsBloom))) ELSE b.logsBloom
      idx  == SelectSeq([i \in 1..Len(OptionalNames) |-> i],
                        LAMBDA i : OptionalNames[i] \in P)
  IN  bytesOf(baseFieldResults(b, lb))
      \o [j \in 1..Len(idx) |-> toFieldBytes(b[OptionalNames[idx[j]]]).bytes]

encodable(b) ==
  LET lb == IF b.logsBloom.k = "string"
            THEN Str(removeWhitespace(chars(b.logsBloom))) ELSE b.logsBloom
  IN  firstThrow(baseFieldResults(b, lb)) = 0

\* the patterns a chain could have hashed for block b
PatternsOf(b) ==
  IF encodable(b)
  THEN SUBSET { OptionalNames[i] : i \in { j \in 1..Len(OptionalNames) :
                                            toFieldBytes(b[OptionalNames[j]]).ok } }
  ELSE {}

Fabricated == {"fabricated"}

hashOf(b, P) ==
  IF P = Fabricated THEN keccak256(<<>>) ELSE keccak256(toRlp(headerOf(b, P)))

-----------------------------------------------------------------------------
(* One call of bruteforceRLP, step by step *)

\* the Challenge 12 script is not running
Ch12Idle ==
  /\ isLocal = FALSE
  /\ height = 0
  /\ recorded = 0
  /\ minted = FALSE
  /\ pc12 = "idle"
  /\ preMintBlock = 0
  /\ currentBlock = 0
  /\ toMine = 0
  /\ foundRlp = "none"
  /\ calls = <<>>
  /\ produced = 0
  /\ exitCode = -1

\* no challenge script is being run from its command line
CliIdle ==
  /\ script = 0
  /\ argv = {}
  /\ envKey = "unset"
  /\ artifacts = FALSE
  /\ pcS = "idle"
  /\ site = 0
  /\ chain = "none"
  /\ signer = "none"
  /\ issued = {}
  /\ mintedSeen = FALSE
  /\ sentAfterMinted = {}
  /\ lastOutcome = "none"
  /\ usage = FALSE
  /\ scriptExit = -1

\* the runner is not running
RunnerIdle ==
  /\ rArgv = {}
  /\ pcR = "idle"
  /\ loopAt = 0
  /\ results = <<>>
  /\ spawned = <<>>
  /\ child = 0
  /\ confirmed = FALSE
  /\ allCompleted = FALSE
  /\ runnerUsage = FALSE
  /\ runnerExit = -1
  /\ answer = "none"
  /\ summaryPrinted = FALSE

\* nothing outside bruteforceRLP and the byte helpers is running
ScriptsIdle == Ch12Idle /\ CliIdle /\ RunnerIdle

SaltIdle ==
  /\ walletLastByte = 0
  /\ addrLastByte = <<>>
  /\ saltAt = 0
  /\ saltsTried = <<>>
  /\ foundSalt = -1
  /\ foundAddr = -1
  /\ sent11 = <<>>
  /\ deployStatus = "none"
  /\ pc11 = "idle"
  /\ exit11 = -1

ReentIdle ==
  /\ contract5 = "none"
  /\ counter = 0
  /\ counterBefore = 0
  /\ depth5 = 0
  /\ claims5 = 0
  /\ fromCallback5 = 0
  /\ pc5 = "idle"
  /\ last5 = "none"
  /\ attacks5 = 0

MaskIdle ==
  /\ passwordSlot = <<>>
  /\ countSlot = <<>>
  /\ sent9 = <<>>
  /\ pc9 = "idle"

GasIdle ==
  /\ optimalGasLimit = 0
  /\ innerSucceeds = <<>>
  /\ gasAt = 0
  /\ tried6 = <<>>
  /\ solveStatus = "none"
  /\ success6 = FALSE
  /\ minted6 = FALSE
  /\ declared6 = FALSE
  /\ pc6 = "idle"
  /\ exit6 = -1

ScanIdle ==
  /\ isLocal10 = FALSE
  /\ currentBlock10 = 0
  /\ lookbackBlocks = 0
  /\ transfer1At = -1
  /\ transfer9At = -1
  /\ fromBlock = 0
  /\ smallFrom = 0
  /\ queried = <<>>
  /\ challenge1TokenId = -1
  /\ challenge9TokenId = -1
  /\ sent10 = FALSE
  /\ pc10 = "idle"
  /\ exit10 = -1

\* none of the single-step models is running
ToolsIdle == SaltIdle /\ ReentIdle /\ MaskIdle /\ GasIdle /\ ScanIdle

HelpersIdle == arg = Undefined /\ fn = "idle" /\ ret = Throw("idle")

InitRLP ==
  /\ block \in Blocks
  /\ truePattern \in PatternsOf(block) \cup {Fabricated}
  /\ targetHash = hashOf(block, truePattern)
  /\ pc = "start"
  /\ logsBloom = Undefined
  /\ baseFields = <<>>
  /\ availableOptionalFields = <<>>
  /\ priorityMasks = <<>>
  /\ pidx = 1
  /\ mask = 0
  /\ attempts = <<>>
  /\ rlpBytes = <<>>
  /\ result = Pending

Init == InitRLP /\ HelpersIdle /\ ScriptsIdle /\ ToolsIdle

totalCombinations == totalCombinationsOf(availableOptionalFields)

\* lines 206-214: the logsBloom check
CheckLogsBloom ==
  /\ pc = "start"
  /\ LET lb == block.logsBloom
     IN  IF lb.k = "string" /\ chars(lb) # <<>>
         THEN LET stripped   == removeWhitespace(chars(lb))
                  bloomBytes == hexToBytes(stripped)
              IN  IF ~bloomBytes.ok
                  THEN /\ result' = Thrown(bloomBytes.err)
                       /\ pc' = "done"
                       /\ UNCHANGED logsBloom
                  ELSE IF invalidBloomLength(bloomBytes.bytes)
                  THEN /\ result' = Thrown("Invalid logsBloom length")
                       /\ pc' = "done"
                       /\ UNCHANGED logsBloom
                  ELSE /\ logsBloom' = Str(stripped)
                       /\ pc' = "fields"
                       /\ UNCHANGED result
         ELSE /\ logsBloom' = lb
              /\ pc' = "fields"
              /\ UNCHANGED result
  /\ UNCHANGED <<block, rlpBytes, truePattern, targetHash, baseFields, availableOptionalFields,
                 priorityMasks, pidx, mask, attempts, arg, fn, ret>>
  /\ UNCHANGED <<scriptVars, toolVars>>

\* lines 216-274: baseFields, availableOptionalFields, priorityMasks
BuildFields ==
  /\ pc = "fields"
  /\ LET rs == baseFieldResults(block, logsBloom)
         t  == firstThrow(rs)
     IN  IF t # 0
         THEN /\ result' = Thrown(rs[t].err)
              /\ pc' = "done"
              /\ UNCHANGED <<baseFields, availableOptionalFields, priorityMasks>>
         ELSE /\ baseFields' = packAll(bytesOf(rs))
              /\ availableOptionalFields' = availableOf(block)
              /\ priorityMasks' = priorityMasksOf(availableOf(block))
              /\ pc' = "priority"
              /\ UNCHANGED result
  /\ UNCHANGED <<block, rlpBytes, truePattern, targetHash, logsBloom, pidx, mask, attempts,
                 arg, fn, ret>>
  /\ UNCHANGED <<scriptVars, toolVars>>

\* one candidate (lines 278-299 and 306-329): build headerList, encode, hash,
\* compare; `next` is what the loop does when the hash differs
TryCandidate(m, next) ==
  LET rs == includedResults(availableOptionalFields, m)
      t  == firstThrow(rs)
  IN  IF t # 0
      THEN /\ result' = Thrown(rs[t].err)
           /\ pc' = "done"
           /\ UNCHANGED <<attempts, pidx, mask, rlpBytes>>
      ELSE LET headerList     == unpackAll(baseFields) \o bytesOf(rs)
               rlp            == toRlp(headerList)
               calculatedHash == keccak256(rlp)
           IN  /\ attempts' = Append(attempts, m)
               /\ IF calculatedHash = targetHash
                  THEN /\ result' = Found(includedNames(availableOptionalFields, m))
                       /\ rlpBytes' = pack(rlp)
                       /\ pc' = "done"
                       /\ UNCHANGED <<pidx, mask>>
                  ELSE /\ next
                       /\ UNCHANGED <<result, pc, rlpBytes>>

\* lines 277-300: one iteration of the priority loop
TryPriority ==
  /\ pc = "priority"
  /\ pidx <= Len(priorityMasks)
  /\ TryCandidate(priorityMasks[pidx], pidx' = pidx + 1 /\ UNCHANGED mask)
  /\ UNCHANGED <<block, truePattern, targetHash, logsBloom, baseFields,
                 availableOptionalFields, priorityMasks, arg, fn, ret>>
  /\ UNCHANGED <<scriptVars, toolVars>>

\* the priority loop ends; the exhaustive loop starts at mask 0
PriorityDone ==
  /\ pc = "priority"
  /\ pidx > Len(priorityMasks)
  /\ pc' = "exhaustive"
  /\ mask' = 0
  /\ UNCHANGED <<block, rlpBytes, truePattern, targetHash, logsBloom, baseFields,
                 availableOptionalFields, priorityMasks, pidx, attempts, result,
                 arg, fn, ret>>
  /\ UNCHANGED <<scriptVars, toolVars>>

inPriority(m) == \E i \in 1..Len(priorityMasks) : priorityMasks[i] = m

\* line 304: a priority mask is skipped
SkipMask ==
  /\ pc = "exhaustive"
  /\ loopContinues(mask, totalCombinations)
  /\ inPriority(mask)
  /\ mask' = mask + 1
  /\ UNCHANGED <<block, rlpBytes, truePattern, targetHash, pc, logsBloom, baseFields,
                 availableOptionalFields, priorityMasks, pidx, attempts, result,
                 arg, fn, ret>>
  /\ UNCHANGED <<scriptVars, toolVars>>

\* lines 303-330: one iteration of the exhaustive loop
TryMask ==
  /\ pc = "exhaustive"
  /\ loopContinues(mask, totalCombinations)
  /\ ~inPriority(mask)
  /\ TryCandidate(mask, mask' = mask + 1 /\ UNCHANGED pidx)
  /\ UNCHANGED <<block, truePattern, targetHash, logsBloom, baseFields,
                 availableOptionalFields, priorityMasks, arg, fn, ret>>
  /\ UNCHANGED <<scriptVars, toolVars>>

\* lines 332-334: every combination was tried
ReturnNull ==
  /\ pc = "exhaustive"
  /\ ~loopContinues(mask, totalCombinations)
  /\ result' = NotFoundResult
  /\ pc' = "done"
  /\ UNCHANGED <<block, rlpBytes, truePattern, targetHash, logsBloom, baseFields,
                 availableOptionalFields, priorityMasks, pidx, mask, attempts,
                 arg, fn, ret>>
  /\ UNCHANGED <<scriptVars, toolVars>>

Next ==
  \/ CheckLogsBloom
  \/ BuildFields
  \/ TryPriority
  \/ PriorityDone
  \/ SkipMask
  \/ TryMask
  \/ ReturnNull

Spec == Init /\ [][Next]_vars

-----------------------------------------------------------------------------
(* The helpers toFieldBytes and toNonceBytes, each applied to one argument *)

\* code units '0', '1', 'f', 'x' and U+00E9
Alphabet == {48, 49, 102, 120, 233}

Strings == UNION { [1..m -> Alphabet] : m \in 0..MaxStrLen }

ShortNibbles == UNION { [1..m -> {0, 1, 15}] : m \in 0..2 }

\* "0x" h d..d t: nonce literals of 0 to 10 bytes
NonceLits ==
  { HexLit(h \o Rep(d, m) \o t) :
      h \in ShortNibbles, t \in ShortNibbles, d \in {0, 15}, m \in 0..MaxNonceFill }

HelperArgs ==
  {Undefined, Null}
  \cup { Num(i) : i \in (0 - MaxNeg)..MaxNum \cup {65535, 65536, 16777215, 16777216} }
  \cup { Str(cs) : cs \in Strings \cup NonceLits }
  \cup { U8(<<>>), U8(<<0>>), U8(<<0, 255>>) }

RlpIdle ==
  /\ block = Null
  /\ truePattern = Fabricated
  /\ targetHash = keccak256(<<>>)
  /\ pc = "idle"
  /\ logsBloom = Undefined
  /\ baseFields = <<>>
  /\ availableOptionalFields = <<>>
  /\ priorityMasks = <<>>
  /\ pidx = 1
  /\ mask = 0
  /\ attempts = <<>>
  /\ rlpBytes = <<>>
  /\ result = Pending

InitBytes ==
  /\ RlpIdle
  /\ arg \in HelperArgs
  /\ fn = "none"
  /\ ret = Throw("not called")
  /\ ScriptsIdle
  /\ ToolsIdle

\* toFieldBytes(arg)
CallToFieldBytes ==
  /\ fn = "none"
  /\ fn' = "toFieldBytes"
  /\ ret' = toFieldBytes(arg)
  /\ UNCHANGED <<arg, block, rlpBytes, truePattern, targetHash, pc, logsBloom, baseFields,
                 availableOptionalFields, priorityMasks, pidx, mask, attempts, result>>
  /\ UNCHANGED <<scriptVars, toolVars>>

\* toNonceBytes(arg), arg: string | undefined
CallToNonceBytes ==
  /\ fn = "none"
  /\ arg.k \in {"string", "undefined"}
  /\ fn' = "toNonceBytes"
  /\ ret' = toNonceBytes(arg)
  /\ UNCHANGED <<arg, block, rlpBytes, truePattern, targetHash, pc, logsBloom, baseFields,
                 availableOptionalFields, priorityMasks, pidx, mask, attempts, result>>
  /\ UNCHANGED <<scriptVars, toolVars>>

NextBytes ==
  \/ CallToFieldBytes
  \/ CallToNonceBytes

SpecBytes == InitBytes /\ [][NextBytes]_vars

-----------------------------------------------------------------------------
(* Notions the properties are stated in *)

Range(f) == { f[i] : i \in DOMAIN f }

\* "0x" followed by hex digits only
IsHexLiteral(cs) ==
  startsWith0x(cs) /\ \A i \in 3..Len(cs) : charCodeToBase16(cs[i]) # -1

\* the bytes a hex literal denotes: its digits paired from the right, an odd
\* leading digit standing for a byte of its own
LiteralBytes(cs) ==
  LET n  == Len(cs) - 2
      nb == (n + 1) \div 2
      d(i) == IF i >= 1 THEN charCodeToBase16(cs[i + 2]) ELSE 0
  IN  [j \in 1..nb |-> 16 * d(n - 2 * (nb - j) - 1) + d(n - 2 * (nb - j))]

\* the number a byte string denotes, big-endian
RECURSIVE BigEndianValue(_)
BigEndianValue(bs) ==
  IF bs = <<>> THEN 0
  ELSE 256 * BigEndianValue(SubSeq(bs, 1, Len(bs) - 1)) + bs[Len(bs)]

\* the length in bytes of the logsBloom of block b, -1 when it is no hex literal
BloomLength(b) ==
  IF b.logsBloom.k # "string" THEN -1
  ELSE LET cs == removeWhitespace(chars(b.logsBloom))
       IN  IF IsHexLiteral(cs) THEN Len(LiteralBytes(cs)) ELSE -1

WellFormedBloom(b) == BloomLength(b) = BloomBytes

\* an optional value the chain client did not supply
IsAbsent(v) == v.k \in {"undefined", "null"}

\* the optional fields of block b that carry a value, in canonical order
SuppliedNames(b) == SelectSeq(OptionalNames, LAMBDA nm : ~IsAbsent(b[nm]))

availableNames == { availableOptionalFields[i].name : i \in 1..Len(availableOptionalFields) }

\* the hash of the candidate of mask m: base is the unpacked local baseFields
candidateHash(base, m) ==
  keccak256(toRlp(base \o bytesOf(includedResults(availableOptionalFields, m))))

IsPrefix(s, u) == Len(s) <= Len(u) /\ \A i \in 1..Len(s) : s[i] = u[i]

-----------------------------------------------------------------------------
(* Properties of bruteforceRLP, checked under Spec *)

\* C1 (as claimed): when the target is the hash of the mandatory fields followed
\* by exactly the fields of a pattern, the call returns a match whose included
\* optional fields are precisely that pattern.
C1_RoundTripExactPattern ==
  (pc = "done" /\ truePattern # Fabricated /\ WellFormedBloom(block))
    => (result.kind = "rlp" /\ Range(result.included) = truePattern)

\* C2 (as claimed): an encoding is returned only when its hash is the target,
\* and when no pattern hashes to the target every one of the 2^k patterns is
\* hashed and the call returns null.
C2_NoFalsePositive ==
  (pc = "done" /\ WellFormedBloom(block))
    => /\ result.kind = "rlp" => keccak256(unpack(rlpBytes)) = targetHash
       /\ truePattern = Fabricated
            => /\ result = NotFoundResult
               /\ \A m \in 0..(2 ^ Len(availableOptionalFields) - 1) :
                    m \in Range(attempts)

\* the order C3 states: only baseFeePerGas (when available), all available
\* fields (when k >= 1), then the other masks in increasing order
ExpectedOrder ==
  LET k       == Len(availableOptionalFields)
      first   == IF "baseFeePerGas" \in availableNames
                 THEN <<2 ^ ((CHOOSE i \in 1..k :
                               availableOptionalFields[i].name = "baseFeePerGas") - 1)>>
                 ELSE <<>>
      second  == IF k >= 1 THEN <<2 ^ k - 1>> ELSE <<>>
      rest    == SelectSeq([i \in 1..(2 ^ k) |-> i - 1],
                           LAMBDA m : m \notin Range(first \o second))
  IN  first \o second \o rest

\* C3: the candidates hashed so far are a prefix of the stated order; a
\* candidate whose hash equals the target is the last one hashed, and the call
\* has returned its encoding.
C3_SearchOrder ==
  LET base == unpackAll(baseFields)
  IN  /\ IsPrefix(attempts, ExpectedOrder)
      /\ \A i \in 1..Len(attempts) :
           candidateHash(base, attempts[i]) = targetHash
             => /\ i = Len(attempts)
                /\ pc = "done"
                /\ result.kind = "rlp"
                /\ keccak256(unpack(rlpBytes)) = targetHash
      /\ result.kind = "rlp"
           => /\ Len(attempts) >= 1
              /\ candidateHash(base, attempts[Len(attempts)]) = targetHash

\* C3 witness: a match found in the exhaustive pass, after both priority candidates
C3_Witness ==
  /\ pc = "done"
  /\ result.kind = "rlp"
  /\ Len(priorityMasks) = 2
  /\ priorityMasks[1] # priorityMasks[2]
  /\ Len(attempts) > 3

\* C4: when the chain hashed the mandatory fields and baseFeePerGas only, the
\* match is found on the first or second candidate.
C4_FastPath ==
  (pc = "done" /\ truePattern = {"baseFeePerGas"} /\ WellFormedBloom(block))
    => (result.kind = "rlp" /\ Len(attempts) \in {1, 2})

\* C4 witness: six available fields, baseFeePerGas only is the match
C4_Witness ==
  /\ pc = "done"
  /\ truePattern = {"baseFeePerGas"}
  /\ Len(availableOptionalFields) = 6
  /\ result.kind = "rlp"
  /\ result.included = <<"baseFeePerGas">>

\* C5 (as claimed): for a block that carries no optional header field exactly
\* one candidate, the mandatory-only encoding, is hashed, and it is returned
\* when its hash is the block hash.
C5_PreForkSingleAttempt ==
  (pc = "done" /\ WellFormedBloom(block) /\ SuppliedNames(block) = <<>>)
    => /\ attempts = <<0>>
       /\ targetHash = hashOf(block, {})
            => (result = Found(<<>>) /\ unpack(rlpBytes) = toRlp(headerOf(block, {})))

\* C6 (as claimed): an optional field without a value (undefined or null) is
\* not in the optional set and does not make the call fail; a field with value
\* 0 is in the optional set.
C6_AbsentFieldsLeftOut ==
  (pc \in {"priority", "exhaustive", "done"} /\ WellFormedBloom(block))
    => /\ \A i \in 1..Len(OptionalNames) :
            LET v == block[OptionalNames[i]]
            IN  /\ IsAbsent(v) => OptionalNames[i] \notin availableNames
                /\ v = Num(0) => OptionalNames[i] \in availableNames
       /\ result.kind # "throw"

\* C10: a logsBloom of 256 bytes passes the check and enters the field list
\* unchanged; for a logsBloom of any other length nothing is encoded or hashed
\* and the call ends with an error, never with not-found.
C10_LogsBloomPrecondition ==
  block.logsBloom.k = "string"
    => IF WellFormedBloom(block)
       THEN pc \in {"priority", "exhaustive", "done"}
              => /\ Len(baseFields) = 15
                 /\ unpack(baseFields[7]) = LiteralBytes(removeWhitespace(chars(block.logsBloom)))
       ELSE /\ attempts = <<>>
            /\ baseFields = <<>>
            /\ pc \in {"start", "done"}
            /\ pc = "done" => result.kind = "throw"

\* C10 witness: a logsBloom of 257 bytes was rejected
C10_Witness ==
  /\ BloomLength(block) = BloomBytes + 1
  /\ pc = "done"
  /\ result.kind = "throw"
  /\ attempts = <<>>

-----------------------------------------------------------------------------
(* Properties of toFieldBytes and toNonceBytes, checked under SpecBytes *)

\* C7: toFieldBytes of the integer 0 is the empty byte string; of n > 0 it is
\* the big-endian bytes of n with a non-zero first byte (256 gives 0x01 0x00);
\* of a negative integer it is an error.
C7_IntegerCanonical ==
  (fn = "toFieldBytes" /\ arg.k = "bigint")
    => IF arg.n < 0 THEN ~ret.ok
       ELSE IF arg.n = 0 THEN ret = Ok(<<>>)
       ELSE /\ ret.ok
            /\ Len(ret.bytes) >= 1
            /\ ret.bytes[1] # 0
            /\ \A i \in 1..Len(ret.bytes) : ret.bytes[i] \in 0..255
            /\ BigEndianValue(ret.bytes) = arg.n
            /\ arg.n = 256 => ret.bytes = <<1, 0>>

\* C7 witness: 256 was encoded as the two bytes 0x01 0x00
C7_Witness ==
  /\ fn = "toFieldBytes"
  /\ arg = Num(256)
  /\ ret = Ok(<<1, 0>>)

\* the bytes of a nonce argument: none when it is missing or the empty string
NonceInput(v) ==
  IF v.k = "undefined" \/ chars(v) = <<>> THEN <<>> ELSE <<>> \o LiteralBytes(chars(v))

\* C8: toNonceBytes of a missing nonce or of a hex literal returns exactly 8
\* bytes: fewer than 8 input bytes are left-padded with zero bytes, 8 bytes are
\* returned unchanged, more than 8 are cut to the first 8.
C8_NonceEightBytes ==
  (fn = "toNonceBytes"
   /\ (arg.k = "undefined" \/ chars(arg) = <<>> \/ IsHexLiteral(chars(arg))))
    => /\ ret.ok
       /\ Len(ret.bytes) = 8
       /\ LET input == NonceInput(arg)
          IN  IF Len(input) <= 8
              THEN ret.bytes = Rep(0, 8 - Len(input)) \o input
              ELSE ret.bytes = SubSeq(input, 1, 8)

\* C8 witness: the 4-byte nonce 0x01ffff01 was left-padded to 8 bytes
C8_Witness ==
  /\ fn = "toNonceBytes"
  /\ arg = Str(HexLit(<<0, 1, 15, 15, 15, 15, 0, 1>>))
  /\ ret = Ok(<<0, 0, 0, 0, 1, 255, 255, 1>>)

\* C9 (as claimed): toFieldBytes of a hex literal is exactly the bytes the
\* literal denotes, its width preserved ("0x00" is one zero byte); of a string
\* that does not start with "0x" it is the UTF-8 bytes of the string.
C9_StringFields ==
  (fn = "toFieldBytes" /\ arg.k = "string")
    => /\ IsHexLiteral(chars(arg)) => ret = Ok(<<>> \o LiteralBytes(chars(arg)))
       /\ ~startsWith0x(chars(arg)) => ret = Ok(TextEncode(chars(arg)))

-----------------------------------------------------------------------------
(* The field order of the candidates, checked under Spec *)

\* the 15 mandatory header fields in their fixed order
MandatoryNames ==
  <<"parentHash", "sha3Uncles", "miner", "stateRoot", "transactionsRoot",
    "receiptsRoot", "logsBloom", "difficulty", "number", "gasLimit", "gasUsed",
    "timestamp", "extraData", "mixHash", "nonce">>

\* the bytes of the mandatory field nm of block b, lb being its logsBloom
\* without whitespace
MandatoryBytes(b, lb, nm) ==
  CASE nm = "sha3Uncles" -> toFieldBytes(Coalesce(b.sha3Uncles, Str(DefaultSha3Uncles))).bytes
    [] nm = "miner"      ->
         toFieldBytes(Coalesce(b.miner, Coalesce(b.coinbase, Str(DefaultMiner)))).bytes
    [] nm = "logsBloom"  -> toFieldBytes(lb).bytes
    [] nm = "difficulty" -> toFieldBytes(Coalesce(b.difficulty, Num(0))).bytes
    [] nm = "extraData"  -> toFieldBytes(Coalesce(b.extraData, Str(<<48, 120>>))).bytes
    [] nm = "mixHash"    -> toFieldBytes(Coalesce(b.mixHash, Str(DefaultMixHash))).bytes
    [] nm = "nonce"      -> toNonceBytes(Coalesce(b.nonce, Str(DefaultNonce))).bytes
    [] OTHER             -> toFieldBytes(b[nm]).bytes

\* the position of an optional field in the canonical order
CanonicalIndex(nm) == CHOOSE i \in 1..Len(OptionalNames) : OptionalNames[i] = nm

\* names in strictly increasing canonical order (hence none twice)
InCanonicalOrder(names) ==
  \A i \in 1..Len(names) : \A j \in 1..Len(names) :
    i < j => CanonicalIndex(names[i]) < CanonicalIndex(names[j])

\* C11: the candidate field list is the 15 mandatory fields in the fixed order
\* followed by the included optional fields in canonical relative order, no
\* field twice: the base list holds field i of MandatoryNames at position i, the
\* available fields and the included fields of every candidate built so far are
\* in canonical order, and a returned encoding is the RLP of exactly that list.
C11_FieldOrder ==
  /\ pc \in {"priority", "exhaustive"} \/ (pc = "done" /\ baseFields # <<>>)
       => /\ Len(baseFields) = Len(MandatoryNames)
          /\ \A i \in 1..Len(MandatoryNames) :
               unpack(baseFields[i]) = MandatoryBytes(block, logsBloom, MandatoryNames[i])
  /\ InCanonicalOrder([i \in 1..Len(availableOptionalFields) |->
                         availableOptionalFields[i].name])
  /\ \A a \in 1..Len(attempts) :
       InCanonicalOrder(includedNames(availableOptionalFields, attempts[a]))
  /\ result.kind = "rlp"
       => /\ InCanonicalOrder(result.included)
          /\ result.included = includedNames(availableOptionalFields, attempts[Len(attempts)])
          /\ unpack(rlpBytes) =
               toRlp(unpackAll(baseFields)
                     \o [j \in 1..Len(result.included) |->
                           toFieldBytes(block[result.included[j]]).bytes])

\* C11 witness: a match that includes three optional fields, one of them skipped over
C11_Witness ==
  /\ pc = "done"
  /\ result.kind = "rlp"
  /\ result.included = <<"baseFeePerGas", "blobGasUsed", "requestsHash">>
  /\ Len(availableOptionalFields) = 6

-----------------------------------------------------------------------------
(* The Challenge 12 script: solveChallenge12, executePreMint, executeMint,      *)
(* interleaved with the block production of the chain.  bruteforceRLP is one   *)
(* step here, with any of its outcomes.                                        *)

\* the deadline of the script, in blocks after the recorded block
Deadline == 256
\* targetBlock = preMintBlock + 2n
TargetOffset == 2

\* the chain height at the start of the run
StartHeight == 300
\* block-production steps of the chain during one run
MaxProduced == 3

\* what bruteforceRLP gave: nothing yet, the encoding of a header, null, or an error
NoRlp == [kind |-> "none", header |-> 0]
RlpOf(n) == [kind |-> "rlp", header |-> n]
NullRlp == [kind |-> "null", header |-> 0]
RlpError == [kind |-> "throw", header |-> 0]

\* one request of the script, made at height h
Call(op, h, a) == [op |-> op, at |-> h, arg |-> a]

\* variant of targetBlock: the block right after the recorded one
targetBlockNextBlock == preMintBlock + 1

targetBlock == preMintBlock + TargetOffset

\* the positions at which the script awaits an answer of the chain client
AwaitPcs ==
  {"readRecorded", "checkExpired", "pre_height", "pre_send", "pre_receipt", "pre_read",
   "mint_height", "local_mine", "extra_mine", "extra_height",
   "simulate", "mint_send", "mint_receipt"}

\* the process ends with the given code
Exit(code) == pc12' = "exited" /\ exitCode' = code

\* Challenge12 contract and chain: the pre-check of mintFlag can pass only for a
\* wallet that has not minted and whose recorded block is at most Deadline old
simulationCanPass == ~minted /\ recorded # 0 /\ height <= recorded + Deadline

InitCh12 ==
  /\ RlpIdle
  /\ HelpersIdle
  /\ ToolsIdle
  /\ CliIdle
  /\ RunnerIdle
  /\ isLocal \in BOOLEAN
  /\ height = StartHeight
  /\ recorded \in {0, StartHeight - Deadline - 1, StartHeight - Deadline,
                   StartHeight - 2, StartHeight - 1, StartHeight}
  /\ minted \in BOOLEAN
  /\ pc12 = "readRecorded"
  /\ preMintBlock = 0
  /\ currentBlock = 0
  /\ toMine = 0
  /\ foundRlp = NoRlp
  /\ calls = <<>>
  /\ produced = 0
  /\ exitCode = -1

\* the chain produces blocks while the script runs: one, or Deadline at once
NewBlock ==
  /\ pc12 \notin {"idle", "exited"}
  /\ \/ produced < MaxProduced
     \/ pc12 = "watching" /\ height < targetBlock
  /\ \E n \in {1, Deadline} : height' = height + n
  /\ produced' = IF produced < MaxProduced THEN produced + 1 ELSE produced
  /\ UNCHANGED <<isLocal, recorded, minted, pc12, preMintBlock, currentBlock, toMine,
                 foundRlp, calls, exitCode>>
  /\ UNCHANGED <<rlpVars, helperVars, cliVars, runnerVars, toolVars>>

\* an awaited request throws (RPC failure); lines 534-537 catch it
RpcThrows ==
  /\ pc12 \in AwaitPcs
  /\ Exit(1)
  /\ UNCHANGED <<isLocal, height, recorded, minted, preMintBlock, currentBlock, toMine,
                 foundRlp, calls, produced>>
  /\ UNCHANGED <<rlpVars, helperVars, cliVars, runnerVars, toolVars>>

\* line 513: preMintBlock = blockNumber[wallet]; line 515: is it 0?
ReadRecorded ==
  /\ pc12 = "readRecorded"
  /\ preMintBlock' = recorded
  /\ pc12' = IF recorded = 0 THEN "pre_height" ELSE "checkExpired"
  /\ UNCHANGED <<isLocal, height, recorded, minted, currentBlock, toMine, foundRlp,
                 calls, produced, exitCode>>
  /\ UNCHANGED <<rlpVars, helperVars, cliVars, runnerVars, toolVars>>

\* variant of expired: the last block of the deadline counts as expired
expiredAtDeadline(current, preMint) == current >= preMint + Deadline

\* line 522: currentBlock > preMintBlock + 256n
expired(current, preMint) == current > preMint + Deadline

\* lines 521-525: an existing recorded block; has its deadline expired?
CheckExpired ==
  /\ pc12 = "checkExpired"
  /\ currentBlock' = height
  /\ pc12' = IF expired(height, preMintBlock) THEN "pre_height" ELSE "mint_height"
  /\ UNCHANGED <<isLocal, height, recorded, minted, preMintBlock, toMine, foundRlp,
                 calls, produced, exitCode>>
  /\ UNCHANGED <<rlpVars, helperVars, cliVars, runnerVars, toolVars>>

\* executePreMint, line 349: getBlockNumber (logged only)
PreHeight ==
  /\ pc12 = "pre_height"
  /\ pc12' = "pre_send"
  /\ UNCHANGED <<isLocal, height, recorded, minted, preMintBlock, currentBlock, toMine,
                 foundRlp, calls, produced, exitCode>>
  /\ UNCHANGED <<rlpVars, helperVars, cliVars, runnerVars, toolVars>>

\* executePreMint, line 352: write.preMintFlag()
PreSend ==
  /\ pc12 = "pre_send"
  /\ calls' = Append(calls, Call("preMintFlag", height, 0))
  /\ pc12' = "pre_receipt"
  /\ UNCHANGED <<isLocal, height, recorded, minted, preMintBlock, currentBlock, toMine,
                 foundRlp, produced, exitCode>>
  /\ UNCHANGED <<rlpVars, helperVars, cliVars, runnerVars, toolVars>>

\* executePreMint, lines 355-359: the transaction is mined in the next block;
\* on success the contract records that block for the wallet
PreReceipt ==
  /\ pc12 = "pre_receipt"
  /\ height' = height + 1
  /\ \E status \in {"success", "reverted"} :
       IF status = "success"
       THEN /\ recorded' = height + 1
            /\ pc12' = "pre_read"
            /\ UNCHANGED exitCode
       ELSE /\ Exit(1)
            /\ UNCHANGED recorded
  /\ UNCHANGED <<isLocal, minted, preMintBlock, currentBlock, toMine, foundRlp, calls,
                 produced>>
  /\ UNCHANGED <<rlpVars, helperVars, cliVars, runnerVars, toolVars>>

\* executePreMint, lines 363-366: the recorded block is read back and returned
PreRead ==
  /\ pc12 = "pre_read"
  /\ preMintBlock' = recorded
  /\ pc12' = "mint_height"
  /\ UNCHANGED <<isLocal, height, recorded, minted, currentBlock, toMine, foundRlp,
                 calls, produced, exitCode>>
  /\ UNCHANGED <<rlpVars, helperVars, cliVars, runnerVars, toolVars>>

\* executeMint, lines 385-398: getBlockNumber, the deadline check, wait or go on
MintHeight ==
  /\ pc12 = "mint_height"
  /\ currentBlock' = height
  /\ IF height > preMintBlock + Deadline
     THEN /\ Exit(1)
          /\ UNCHANGED toMine
     ELSE IF height < targetBlock
     THEN IF isLocal
          THEN /\ toMine' = targetBlock - height
               /\ pc12' = "local_mine"
               /\ UNCHANGED exitCode
          ELSE /\ pc12' = "watching"
               /\ UNCHANGED <<toMine, exitCode>>
     ELSE /\ pc12' = "brute"
          /\ UNCHANGED <<toMine, exitCode>>
  /\ UNCHANGED <<isLocal, height, recorded, minted, preMintBlock, foundRlp, calls,
                 produced>>
  /\ UNCHANGED <<rlpVars, helperVars, cliVars, runnerVars, toolVars>>

\* executeMint, lines 402-406: one evm_mine request of the local mining loop
LocalMine ==
  /\ pc12 = "local_mine"
  /\ toMine > 0
  /\ height' = height + 1
  /\ toMine' = toMine - 1
  /\ calls' = Append(calls, Call("evm_mine", height, 0))
  /\ UNCHANGED <<isLocal, recorded, minted, pc12, preMintBlock, currentBlock, foundRlp,
                 produced, exitCode>>
  /\ UNCHANGED <<rlpVars, helperVars, cliVars, runnerVars, toolVars>>

\* executeMint, lines 402, 409: the mining loop is over, getBlockNumber
LocalHeight ==
  /\ pc12 = "local_mine"
  /\ toMine = 0
  /\ currentBlock' = height
  /\ pc12' = "brute"
  /\ UNCHANGED <<isLocal, height, recorded, minted, preMintBlock, toMine, foundRlp,
                 calls, produced, exitCode>>
  /\ UNCHANGED <<rlpVars, helperVars, cliVars, runnerVars, toolVars>>

\* executeMint, lines 415-438: the watcher delivers a new block number; at the
\* target it is unsubscribed and the wait ends
\* variant of reached: one block short of the target is enough
reachedOneShort(blockNumber) == blockNumber >= targetBlock - 1

\* line 426: the callback's test `blockNumber >= targetBlock`
reached(blockNumber) == blockNumber >= targetBlock

OnBlockNumber ==
  /\ pc12 = "watching"
  /\ height > currentBlock
  /\ currentBlock' = height
  /\ IF reached(height)
     THEN /\ calls' = Append(calls, Call("unwatch", height, 0))
          /\ pc12' = "brute"
     ELSE UNCHANGED <<calls, pc12>>
  /\ UNCHANGED <<isLocal, height, recorded, minted, preMintBlock, toMine, foundRlp,
                 produced, exitCode>>
  /\ UNCHANGED <<rlpVars, helperVars, cliVars, runnerVars, toolVars>>

\* the mutant of goesOn that lets null pass the check of line 446
goesOnWithNull(r) == r.kind \in {"rlp", "null"}

\* lines 444-448: executeMint goes on after bruteforceRLP only with an encoding
\* (an error propagates, `!rlpBytes` throws)
goesOn(r) == r.kind = "rlp"

\* executeMint, lines 444-451: bruteforceRLP(targetBlock) gives an encoding,
\* null or an error; null is thrown on as an error
Brute ==
  /\ pc12 = "brute"
  /\ calls' = Append(calls, Call("bruteforceRLP", height, targetBlock))
  /\ \E r \in {RlpOf(targetBlock), NullRlp, RlpError} :
       /\ foundRlp' = r
       /\ IF goesOn(r)
          THEN /\ pc12' = IF isLocal THEN "extra_mine" ELSE "simulate"
               /\ UNCHANGED exitCode
          ELSE Exit(1)
  /\ UNCHANGED <<isLocal, height, recorded, minted, preMintBlock, currentBlock, toMine,
                 produced>>
  /\ UNCHANGED <<rlpVars, helperVars, cliVars, runnerVars, toolVars>>

\* executeMint, lines 451-455: local mode mines one more block
ExtraMine ==
  /\ pc12 = "extra_mine"
  /\ height' = height + 1
  /\ calls' = Append(calls, Call("evm_mine", height, 0))
  /\ pc12' = "extra_height"
  /\ UNCHANGED <<isLocal, recorded, minted, preMintBlock, currentBlock, toMine,
                 foundRlp, produced, exitCode>>
  /\ UNCHANGED <<rlpVars, helperVars, cliVars, runnerVars, toolVars>>

\* executeMint, line 456: getBlockNumber (logged only)
ExtraHeight ==
  /\ pc12 = "extra_height"
  /\ pc12' = "simulate"
  /\ UNCHANGED <<isLocal, height, recorded, minted, preMintBlock, currentBlock, toMine,
                 foundRlp, calls, produced, exitCode>>
  /\ UNCHANGED <<rlpVars, helperVars, cliVars, runnerVars, toolVars>>

\* executeMint, lines 463-480: simulateContract(mintFlag, [rlpBytes]); the
\* already-minted error ends the run as completed, any other error as failed
Simulate ==
  /\ pc12 = "simulate"
  /\ calls' = Append(calls, Call("simulate mintFlag", height, foundRlp))
  /\ \/ /\ simulationCanPass
        /\ pc12' = "mint_send"
        /\ UNCHANGED exitCode
     \/ /\ minted
        /\ Exit(0)
     \/ /\ ~minted
        /\ Exit(1)
  /\ UNCHANGED <<isLocal, height, recorded, minted, preMintBlock, currentBlock, toMine,
                 foundRlp, produced>>
  /\ UNCHANGED <<rlpVars, helperVars, cliVars, runnerVars, toolVars>>

\* executeMint, line 482: write.mintFlag([rlpBytes])
MintSend ==
  /\ pc12 = "mint_send"
  /\ calls' = Append(calls, Call("mintFlag", height, foundRlp))
  /\ pc12' = "mint_receipt"
  /\ UNCHANGED <<isLocal, height, recorded, minted, preMintBlock, currentBlock, toMine,
                 foundRlp, produced, exitCode>>
  /\ UNCHANGED <<rlpVars, helperVars, cliVars, runnerVars, toolVars>>

\* executeMint, lines 485-491, and lines 531-532: the transaction is mined in
\* the next block; success ends the run with code 0, a revert with code 1
MintReceipt ==
  /\ pc12 = "mint_receipt"
  /\ height' = height + 1
  /\ \/ /\ ~minted
        /\ minted' = TRUE
        /\ Exit(0)
     \/ /\ Exit(1)
        /\ UNCHANGED minted
  /\ UNCHANGED <<isLocal, recorded, preMintBlock, currentBlock, toMine, foundRlp, calls,
                 produced>>
  /\ UNCHANGED <<rlpVars, helperVars, cliVars, runnerVars, toolVars>>

NextCh12 ==
  \/ NewBlock
  \/ RpcThrows
  \/ ReadRecorded
  \/ CheckExpired
  \/ PreHeight
  \/ PreSend
  \/ PreReceipt
  \/ PreRead
  \/ MintHeight
  \/ LocalMine
  \/ LocalHeight
  \/ OnBlockNumber
  \/ Brute
  \/ ExtraMine
  \/ ExtraHeight
  \/ Simulate
  \/ MintSend
  \/ MintReceipt

SpecCh12 == InitCh12 /\ [][NextCh12]_vars

\* SpecCh12 with the scheduling the block wait relies on: the chain goes on
\* producing blocks, the poller of watchBlockNumber (lines 421-434) delivers a
\* new block number to the callback, and the script runs the statement that
\* follows the wait (line 444)
SpecCh12Live ==
  /\ SpecCh12
  /\ WF_vars(NewBlock)
  /\ WF_vars(OnBlockNumber)
  /\ WF_vars(Brute)

-----------------------------------------------------------------------------
(* Properties of the Challenge 12 script, checked under SpecCh12 *)

\* the requests of kind op made so far
CallsOf(op) == SelectSeq(calls, LAMBDA c : c.op = op)

\* C12: when bruteforceRLP returned null the process has ended with exit code 1,
\* bruteforceRLP was called exactly once, and mintFlag was neither simulated nor
\* submitted.
C12_NotFoundIsFinal ==
  foundRlp = NullRlp
    => /\ pc12 = "exited"
       /\ exitCode = 1
       /\ Len(CallsOf("bruteforceRLP")) = 1
       /\ CallsOf("simulate mintFlag") = <<>>
       /\ CallsOf("mintFlag") = <<>>

\* C12 witness: not-found after a wait for the target block in production mode
C12_Witness ==
  /\ foundRlp = NullRlp
  /\ ~isLocal
  /\ CallsOf("unwatch") # <<>>
  /\ exitCode = 1

-----------------------------------------------------------------------------
(* One run of a challenge script from its command line to its exit.        *)
(* Every script is the table of its chain calls in program order: a call   *)
(* site is [line, kind, outs], outs the set of <<outcome, target>> pairs   *)
(* the code allows.  The outcome is what the chain answers:                *)
(*   "ok"        the call returns and the script goes on                   *)
(*   "done"      the value read shows the challenge already completed      *)
(*   "lacking"   the value read shows a precondition is not met            *)
(*   "notMinted" the read after the transaction shows no flag              *)
(*   "reverted"  the receipt's status is not "success"                     *)
(*   "minted"    the call throws "User address has already minted for      *)
(*               this challenge" (transactions and simulations)            *)
(*   "error"     the call throws anything else                             *)
(* The target is the index of the next site, Done or Fail.  A loop is a    *)
(* site with itself or an earlier site among its targets.                  *)

\* target: the async function returns, the process ends with exit code 0
Done == 0
\* target: process.exit(1), directly or from the .catch of the last line
Fail == -1

Site(line, kind, outs) == [line |-> line, kind |-> kind, outs |-> outs]

\* Challenge 1, main()
Challenge1Steps == <<
  Site(91, "read", {<<"ok", 2>>, <<"done", Done>>, <<"error", Fail>>}),
  \* an error holding "already registered" is taken as completed too
  Site(105, "tx", {<<"ok", 3>>, <<"done", Done>>, <<"minted", Done>>, <<"error", Fail>>}),
  Site(108, "receipt", {<<"ok", 4>>, <<"reverted", Fail>>, <<"error", Fail>>}),
  Site(114, "read", {<<"ok", Done>>, <<"error", Fail>>}) >>

\* Challenge 2, solveChallenge2()
Challenge2Steps == <<
  Site(115, "read", {<<"ok", 2>>, <<"done", Done>>, <<"error", 2>>}),
  Site(135, "tx", {<<"ok", 3>>, <<"minted", Done>>, <<"error", Fail>>}),
  Site(143, "receipt", {<<"ok", 4>>, <<"reverted", Fail>>, <<"error", Fail>>}),
  Site(160, "tx", {<<"ok", 5>>, <<"minted", Done>>, <<"error", Fail>>}),
  Site(162, "receipt", {<<"ok", Done>>, <<"reverted", Fail>>, <<"error", Fail>>}) >>

\* Challenge 3, solveChallenge3()
Challenge3Steps == <<
  Site(109, "read", {<<"ok", 2>>, <<"done", Done>>, <<"error", Fail>>}),
  Site(133, "tx", {<<"ok", 3>>, <<"minted", Done>>, <<"error", Fail>>}),
  Site(140, "receipt", {<<"ok", Done>>, <<"reverted", Fail>>, <<"error", Fail>>}) >>

\* Challenge 4, solveChallenge4(); sites 3-5 are the search for another minter
Challenge4Steps == <<
  Site(333, "read", {<<"ok", 2>>, <<"done", Done>>, <<"error", 2>>}),
  Site(348, "read", {<<"ok", 6>>, <<"lacking", 3>>, <<"error", Fail>>}),
  Site(366, "read", {<<"ok", 4>>, <<"lacking", 3>>, <<"lacking", Fail>>, <<"error", Fail>>}),
  Site(393, "tx", {<<"ok", 5>>, <<"minted", Done>>, <<"error", Fail>>}),
  Site(398, "receipt", {<<"ok", Done>>, <<"reverted", Fail>>, <<"error", Fail>>}),
  Site(440, "tx", {<<"ok", 7>>, <<"minted", Done>>, <<"error", Fail>>}),
  Site(449, "receipt", {<<"ok", Done>>, <<"reverted", Fail>>, <<"error", Fail>>}) >>

\* Challenge 5, solveChallenge5(): early mint (1-3), claim loop (4-7),
\* reentrancy attack (8-19), final mint (20-22)
Challenge5Steps == <<
  Site(101, "read", {<<"ok", 2>>, <<"ok", 4>>, <<"error", 4>>}),
  Site(108, "tx", {<<"ok", 3>>, <<"minted", Done>>, <<"error", 4>>}),
  \* line 109: the receipt's status is not looked at
  Site(109, "receipt", {<<"ok", Done>>, <<"reverted", Done>>, <<"error", 4>>}),
  Site(127, "read", {<<"ok", 5>>, <<"ok", 20>>, <<"error", Fail>>}),
  \* lines 157-160: any error of the loop is logged and the loop left
  Site(142, "tx", {<<"ok", 6>>, <<"minted", 8>>, <<"minted", 11>>,
                   <<"error", 8>>, <<"error", 11>>}),
  Site(143, "receipt", {<<"ok", 7>>, <<"reverted", 5>>, <<"reverted", 8>>,
                        <<"reverted", 11>>, <<"error", 8>>, <<"error", 11>>}),
  Site(148, "read", {<<"ok", 5>>, <<"ok", 20>>, <<"ok", 8>>, <<"error", 8>>,
                     <<"error", 11>>}),
  Site(172, "tx", {<<"ok", 9>>, <<"minted", Done>>, <<"error", Fail>>}),
  Site(173, "receipt", {<<"ok", 10>>, <<"reverted", 10>>, <<"error", Fail>>}),
  Site(180, "read", {<<"ok", 11>>, <<"error", Fail>>}),
  Site(199, "read", {<<"ok", 12>>, <<"error", Fail>>}),
  Site(207, "read", {<<"ok", 13>>, <<"error", Fail>>}),
  Site(209, "tx", {<<"ok", 14>>, <<"minted", Done>>, <<"error", Fail>>}),
  \* line 222: only the contract address of the receipt is looked at
  Site(217, "receipt", {<<"ok", 15>>, <<"reverted", 15>>, <<"reverted", Fail>>,
                        <<"error", Fail>>}),
  \* lines 258-264: any error of the attack is logged, the points read again
  Site(240, "tx", {<<"ok", 16>>, <<"minted", 19>>, <<"error", 19>>}),
  Site(243, "receipt", {<<"ok", 17>>, <<"reverted", 20>>, <<"error", 19>>}),
  Site(251, "read", {<<"ok", 18>>, <<"error", 19>>}),
  Site(254, "read", {<<"ok", 20>>, <<"error", 19>>}),
  Site(261, "read", {<<"ok", 20>>, <<"error", Fail>>}),
  Site(268, "read", {<<"ok", 21>>, <<"lacking", Fail>>, <<"error", Fail>>}),
  Site(277, "tx", {<<"ok", 22>>, <<"minted", Done>>, <<"error", Fail>>}),
  \* lines 282-291: no else branch for a status other than success
  Site(278, "receipt", {<<"ok", Done>>, <<"reverted", Done>>, <<"error", Fail>>}) >>

\* Challenge 6, solveChallenge6(): gas search loop (6-9), attempts (10-12)
Challenge6Steps == <<
  Site(113, "read", {<<"ok", 2>>, <<"done", Done>>, <<"error", 2>>}),
  Site(127, "read", {<<"ok", 3>>, <<"error", Fail>>}),
  Site(150, "tx", {<<"ok", 4>>, <<"minted", Done>>, <<"error", Fail>>}),
  Site(155, "receipt", {<<"ok", 5>>, <<"reverted", 5>>, <<"reverted", Fail>>,
                        <<"error", Fail>>}),
  Site(174, "read", {<<"ok", 6>>, <<"error", Fail>>}),
  \* lines 244-252: any error of the search narrows the range and goes on
  Site(207, "tx", {<<"ok", 7>>, <<"minted", 6>>, <<"minted", 10>>,
                   <<"error", 6>>, <<"error", 10>>}),
  Site(211, "receipt", {<<"ok", 8>>, <<"reverted", 8>>, <<"error", 6>>, <<"error", 10>>}),
  Site(216, "read", {<<"ok", 9>>, <<"error", 6>>, <<"error", 10>>}),
  Site(217, "read", {<<"ok", 6>>, <<"ok", 10>>, <<"error", 6>>, <<"error", 10>>}),
  \* lines 311-319 and 324: next gas limit, or exit 1 after the last one
  Site(280, "read", {<<"ok", 11>>, <<"error", 10>>, <<"error", Fail>>}),
  Site(286, "tx", {<<"ok", 12>>, <<"minted", Done>>, <<"error", 10>>, <<"error", Fail>>}),
  Site(292, "receipt", {<<"ok", Done>>, <<"reverted", 10>>, <<"reverted", Fail>>,
                        <<"error", 10>>, <<"error", Fail>>}) >>

\* Challenge 7, solveChallenge7()
Challenge7Steps == <<
  Site(368, "read", {<<"ok", 5>>, <<"ok", 2>>, <<"error", Fail>>}),
  \* lines 457-469: the outer catch does not look for the already-minted message
  Site(397, "tx", {<<"ok", 3>>, <<"minted", Fail>>, <<"error", Fail>>}),
  Site(403, "receipt", {<<"ok", 4>>, <<"reverted", Fail>>, <<"error", Fail>>}),
  Site(411, "read", {<<"ok", 5>>, <<"lacking", Fail>>, <<"error", Fail>>}),
  Site(427, "tx", {<<"ok", 6>>, <<"minted", Done>>, <<"error", Fail>>}),
  \* lines 444-446: "mintFlag failed" is logged and the function returns
  Site(430, "receipt", {<<"ok", Done>>, <<"reverted", Done>>, <<"error", Fail>>}) >>

\* Challenge 8, solveChallenge8(); lines 105-115 log the failure and go on
Challenge8Steps == <<
  Site(70, "read", {<<"ok", 2>>, <<"error", Fail>>}),
  Site(92, "tx", {<<"ok", 3>>, <<"minted", Done>>, <<"error", Done>>}),
  Site(98, "receipt", {<<"ok", Done>>, <<"reverted", Done>>, <<"error", Done>>}) >>

\* Challenge 9, solveChallenge9()
Challenge9Steps == <<
  Site(645, "read", {<<"ok", 3>>, <<"done", 2>>, <<"error", Fail>>}),
  Site(653, "read", {<<"ok", Done>>, <<"error", Fail>>}),
  Site(662, "read", {<<"ok", 4>>, <<"error", Fail>>}),
  Site(672, "read", {<<"ok", 5>>, <<"error", Fail>>}),
  Site(709, "tx", {<<"ok", 6>>, <<"minted", Done>>, <<"error", Fail>>}),
  Site(714, "receipt", {<<"ok", 7>>, <<"reverted", Fail>>, <<"error", Fail>>}),
  Site(726, "read", {<<"ok", 8>>, <<"notMinted", Fail>>, <<"error", Fail>>}),
  Site(735, "read", {<<"ok", Done>>, <<"error", Fail>>}) >>

\* Challenge 10, solveChallenge10(): report of missing flags (2-4), scan of
\* the Transfer logs (8-11), transfer (12-17)
Challenge10Steps == <<
  Site(74, "read", {<<"ok", 5>>, <<"lacking", 2>>, <<"error", Fail>>}),
  Site(87, "read", {<<"ok", 2>>, <<"ok", 3>>, <<"error", Fail>>}),
  Site(103, "read", {<<"ok", 4>>, <<"error", Fail>>}),
  Site(115, "read", {<<"lacking", Fail>>, <<"error", Fail>>}),
  Site(130, "read", {<<"ok", 6>>, <<"error", Fail>>}),
  Site(135, "read", {<<"ok", 7>>, <<"lacking", Fail>>, <<"error", Fail>>}),
  Site(176, "read", {<<"ok", 8>>, <<"lacking", Fail>>, <<"error", Fail>>}),
  Site(208, "read", {<<"ok", 8>>, <<"ok", 10>>, <<"lacking", Fail>>,
                     <<"error", 9>>, <<"error", 8>>, <<"error", 10>>, <<"error", Fail>>}),
  Site(241, "read", {<<"ok", 9>>, <<"ok", 8>>, <<"ok", 10>>, <<"lacking", Fail>>,
                     <<"error", 9>>, <<"error", 8>>, <<"error", 10>>, <<"error", Fail>>}),
  Site(284, "read", {<<"ok", 11>>, <<"ok", 10>>, <<"ok", 12>>, <<"lacking", Fail>>,
                     <<"error", 10>>, <<"error", 12>>, <<"error", Fail>>}),
  Site(293, "read", {<<"ok", 10>>, <<"ok", 12>>, <<"lacking", Fail>>,
                     <<"error", 10>>, <<"error", 12>>, <<"error", Fail>>}),
  Site(353, "read", {<<"ok", 13>>, <<"done", Done>>, <<"error", Fail>>}),
  \* lines 435-453: the catch does not look for the already-minted message
  Site(375, "tx", {<<"ok", 14>>, <<"minted", Fail>>, <<"error", Fail>>}),
  Site(383, "receipt", {<<"ok", 15>>, <<"reverted", Fail>>, <<"error", Fail>>}),
  Site(392, "read", {<<"ok", 16>>, <<"notMinted", Fail>>, <<"error", Fail>>}),
  Site(401, "read", {<<"ok", 17>>, <<"error", Fail>>}),
  Site(406, "read", {<<"ok", Done>>, <<"error", Done>>}) >>

\* Challenge 11, solveChallenge11(); lines 265-267 log every error and
\* lines 258-263 every failure, and the function returns
Challenge11Steps == <<
  Site(109, "read", {<<"ok", 2>>, <<"lacking", Done>>, <<"error", 2>>, <<"error", Done>>}),
  Site(127, "read", {<<"ok", 3>>, <<"done", Done>>, <<"error", Done>>}),
  Site(144, "tx", {<<"ok", 4>>, <<"minted", Done>>, <<"error", Done>>}),
  Site(151, "receipt", {<<"ok", 5>>, <<"reverted", 5>>, <<"reverted", Done>>,
                        <<"error", Done>>}),
  Site(210, "tx", {<<"ok", 6>>, <<"minted", Done>>, <<"error", Done>>}),
  Site(216, "receipt", {<<"ok", 7>>, <<"reverted", Done>>, <<"error", Done>>}),
  Site(235, "tx", {<<"ok", 8>>, <<"minted", Done>>, <<"error", Done>>}),
  Site(238, "receipt", {<<"ok", 9>>, <<"reverted", Done>>, <<"error", Done>>}),
  Site(244, "read", {<<"ok", 10>>, <<"notMinted", Done>>, <<"error", Done>>}),
  Site(256, "read", {<<"ok", Done>>, <<"error", Done>>}) >>

\* Challenge 12, solveChallenge12(), executePreMint() (3-6), executeMint()
\* (7-16) with bruteforceRLP's getBlock (11); SpecCh12 has the full detail
Challenge12Steps(local) == <<
  Site(513, "read", {<<"ok", 2>>, <<"ok", 3>>, <<"error", Fail>>}),
  Site(521, "read", {<<"ok", 3>>, <<"ok", 7>>, <<"error", Fail>>}),
  Site(349, "read", {<<"ok", 4>>, <<"error", Fail>>}),
  \* lines 534-537: the catch does not look for the already-minted message
  Site(352, "tx", {<<"ok", 5>>, <<"minted", Fail>>, <<"error", Fail>>}),
  Site(355, "receipt", {<<"ok", 6>>, <<"reverted", Fail>>, <<"error", Fail>>}),
  Site(363, "read", {<<"ok", 7>>, <<"error", Fail>>}),
  Site(385, "read", {<<"ok", IF local THEN 8 ELSE 10>>, <<"ok", 11>>,
                     <<"lacking", Fail>>, <<"error", Fail>>}),
  Site(403, "request", {<<"ok", 8>>, <<"ok", 9>>, <<"error", Fail>>}),
  Site(409, "read", {<<"ok", 11>>, <<"error", Fail>>}),
  Site(424, "read", {<<"ok", 10>>, <<"ok", 11>>}),
  Site(159, "read", {<<"ok", IF local THEN 12 ELSE 14>>, <<"lacking", Fail>>,
                     <<"error", Fail>>}),
  Site(453, "request", {<<"ok", 13>>, <<"error", Fail>>}),
  Site(456, "read", {<<"ok", 14>>, <<"error", Fail>>}),
  Site(464, "simulate", {<<"ok", 15>>, <<"minted", Done>>, <<"error", Fail>>}),
  Site(482, "tx", {<<"ok", 16>>, <<"minted", Fail>>, <<"error", Fail>>}),
  Site(485, "receipt", {<<"ok", Done>>, <<"reverted", Fail>>, <<"error", Fail>>}) >>

Challenges == 1..12

StepsOf(ch, local) ==
  CASE ch = 1 -> Challenge1Steps
    [] ch = 2 -> Challenge2Steps
    [] ch = 3 -> Challenge3Steps
    [] ch = 4 -> Challenge4Steps
    [] ch = 5 -> Challenge5Steps
    [] ch = 6 -> Challenge6Steps
    [] ch = 7 -> Challenge7Steps
    [] ch = 8 -> Challenge8Steps
    [] ch = 9 -> Challenge9Steps
    [] ch = 10 -> Challenge10Steps
    [] ch = 11 -> Challenge11Steps
    [] ch = 12 -> Challenge12Steps(local)

\* the scripts that read compiled artifacts while the module loads
LoadsArtifacts == {2, 5, 11}

\* the scripts that look for --help / -h (the Challenge 3 script does not)
HasHelp == Challenges \ {3}

Options == {"--local", "--help", "-h"}

\* what process.env holds for the key: nothing, '', a private key, or a
\* string privateKeyToAccount rejects
EnvKeys == {"unset", "empty", "key", "malformed"}

LOCAL_CHAIN_1ST_ACCOUNT_PK == "hardhat#0"

TARGET_CHAIN(local) == IF local THEN "hardhat" ELSE "optimism"

\* variant of MY_WALLET_PK: falls back to the local key when the variable is
\* not set, as the usage text of Challenges 1 and 2 describes
MY_WALLET_PK_LocalFallback(local, key) ==
  IF local \/ key \in {"unset", "empty"} THEN LOCAL_CHAIN_1ST_ACCOUNT_PK ELSE key

\* isLocal ? LOCAL_CHAIN_1ST_ACCOUNT_PK : env || (() => { process.exit(1) })()
MY_WALLET_PK(local, key) ==
  IF local THEN LOCAL_CHAIN_1ST_ACCOUNT_PK
  ELSE IF key \in {"unset", "empty"} THEN "exit" ELSE key

ScriptExit(code) == pcS' = "exited" /\ scriptExit' = code

InitScripts ==
  /\ RlpIdle
  /\ HelpersIdle
  /\ ToolsIdle
  /\ Ch12Idle
  /\ RunnerIdle
  /\ script \in Challenges
  /\ argv \in SUBSET Options
  /\ envKey \in EnvKeys
  /\ artifacts \in BOOLEAN
  /\ pcS = "select"
  /\ site = 0
  /\ chain = "none"
  /\ signer = "none"
  /\ issued = {}
  /\ mintedSeen = FALSE
  /\ sentAfterMinted = {}
  /\ lastOutcome = "none"
  /\ usage = FALSE
  /\ scriptExit = -1

\* module top: isLocal, TARGET_CHAIN, MY_WALLET_PK, privateKeyToAccount
SelectKey ==
  /\ pcS = "select"
  /\ LET local == "--local" \in argv
         pk == MY_WALLET_PK(local, envKey)
     IN /\ chain' = TARGET_CHAIN(local)
        /\ IF pk \in {"exit", "malformed"}
           THEN ScriptExit(1) /\ UNCHANGED signer
           ELSE /\ signer' = pk
                /\ pcS' = "artifacts"
                /\ UNCHANGED scriptExit
  /\ UNCHANGED <<script, argv, envKey, artifacts, site, issued, mintedSeen,
                 sentAfterMinted, lastOutcome, usage>>
  /\ UNCHANGED <<rlpVars, helperVars, ch12Vars, runnerVars, toolVars>>

\* module level: fs.readFileSync of the compiled artifacts
LoadArtifacts ==
  /\ pcS = "artifacts"
  /\ IF script \in LoadsArtifacts /\ ~artifacts
     THEN ScriptExit(1)
     ELSE pcS' = "help" /\ UNCHANGED scriptExit
  /\ UNCHANGED <<script, argv, envKey, artifacts, site, chain, signer, issued,
                 mintedSeen, sentAfterMinted, lastOutcome, usage>>
  /\ UNCHANGED <<rlpVars, helperVars, ch12Vars, runnerVars, toolVars>>

\* bottom of the module: the help check, then the call of the solver
HelpCheck ==
  /\ pcS = "help"
  /\ IF script \in HasHelp /\ argv \cap {"--help", "-h"} # {}
     THEN usage' = TRUE /\ ScriptExit(0) /\ UNCHANGED site
     ELSE pcS' = "run" /\ site' = 1 /\ UNCHANGED <<usage, scriptExit>>
  /\ UNCHANGED <<script, argv, envKey, artifacts, chain, signer, issued, mintedSeen,
                 sentAfterMinted, lastOutcome>>
  /\ UNCHANGED <<rlpVars, helperVars, ch12Vars, runnerVars, toolVars>>

\* one awaited chain call of the solver and the code that handles its outcome
ChainCall ==
  /\ pcS = "run"
  /\ LET s == StepsOf(script, "--local" \in argv)[site]
     IN \E o \in s.outs :
          /\ issued' = issued \cup {[line |-> s.line, kind |-> s.kind,
                                     chain |-> chain, signer |-> signer]}
          /\ lastOutcome' = o[1]
          /\ mintedSeen' = (mintedSeen \/ o[1] = "minted")
          /\ sentAfterMinted' = IF mintedSeen /\ s.kind = "tx"
                                THEN sentAfterMinted \cup {s.line}
                                ELSE sentAfterMinted
          /\ IF o[2] = Done THEN ScriptExit(0) /\ UNCHANGED site
             ELSE IF o[2] = Fail THEN ScriptExit(1) /\ UNCHANGED site
             ELSE site' = o[2] /\ UNCHANGED <<pcS, scriptExit>>
  /\ UNCHANGED <<script, argv, envKey, artifacts, chain, signer, usage>>
  /\ UNCHANGED <<rlpVars, helperVars, ch12Vars, runnerVars, toolVars>>

NextScripts ==
  \/ SelectKey
  \/ LoadArtifacts
  \/ HelpCheck
  \/ ChainCall

SpecScripts == InitScripts /\ [][NextScripts]_vars

-----------------------------------------------------------------------------
(* Properties of the challenge scripts' runs, checked under SpecScripts *)

help == argv \cap {"--help", "-h"} # {}

\* the outcomes that are failures other than the already-minted response
Failures == {"error", "reverted", "notMinted"}

\* C13: in every challenge script, once a chain call (simulation or
\* transaction) has failed with "User address has already minted for this
\* challenge", no further transaction is submitted and the process has ended
\* with exit code 0.
C13_AlreadyMintedIsSuccess ==
  mintedSeen => /\ sentAfterMinted = {}
                /\ pcS = "exited"
                /\ scriptExit = 0

\* C14: in every challenge script, when the process has ended and its last
\* chain call failed (it threw, its receipt had a status other than success,
\* or the read after the transaction showed no flag), and the failure was not
\* the already-minted response, the exit code is not 0.
C14_FailureExitsNonZero ==
  (pcS = "exited" /\ lastOutcome \in Failures) => scriptExit # 0

C15_LocalWitness ==
  /\ "--local" \in argv
  /\ envKey = "key"
  /\ \E c \in issued : c.kind = "tx" /\ c.chain = "hardhat"

C15_ProductionWitness ==
  /\ "--local" \notin argv
  /\ envKey = "key"
  /\ \E c \in issued : c.kind = "tx" /\ c.chain = "optimism" /\ c.signer = "key"

\* C16: for the Challenge 1 and Challenge 2 scripts, when the private-key
\* variable is not set, once the key is selected the signer is the local
\* chain's account #0 and the script has not exited at the key selection.
C16_LocalKeyFallback ==
  (script \in {1, 2} /\ envKey = "unset" /\ pcS # "select")
    => /\ signer = LOCAL_CHAIN_1ST_ACCOUNT_PK
       /\ ~(pcS = "exited" /\ scriptExit = 1 /\ issued = {} /\ ~usage)

\* C17: for every challenge script, when --help or -h is among the arguments
\* no chain call is ever issued, and when the process has ended it has
\* printed its usage and the exit code is 0, whatever --local and the
\* private-key variable are.
C17_HelpExitsZero ==
  help => /\ issued = {}
          /\ pcS = "exited" => (usage /\ scriptExit = 0)

-----------------------------------------------------------------------------
(* The runner of all challenges: confirmation, one child process per       *)
(* challenge, summary.  A close or error event, the continuation of main   *)
(* after the await, and the spawn of the next child or the summary and     *)
(* process.exit run in one turn of the event loop and are one action.      *)

\* CHALLENGES[i].number
CHALLENGES == [i \in 1..12 |-> i]

\* exit code of a child: 0, 1, or null when a signal ended it
NullCode == -1
ChildCodes == {0, 1, NullCode}

\* what the operator types at a prompt
Answers == {"y", "Y", "yes", "YES", "n", ""}

toLowerCase(a) == CASE a = "Y" -> "y" [] a = "YES" -> "yes" [] OTHER -> a

\* lines 99 / 110 and 183 / 194
accepted(a) == toLowerCase(a) = "y" \/ toLowerCase(a) = "yes"

\* variant of aborts: only a failure of challenges 1-8 aborts
abortsBelowNine(number) == number >= 1 /\ number <= 8

\* line 160: a failure of challenges 1-9 aborts the run without a prompt
aborts(number) == number >= 1 /\ number <= 9

\* variant of nextChallenge: the loop stays on the challenge that just ran
nextChallengeSame(i) == i

\* line 153: for (const challenge of CHALLENGES)
nextChallenge(i) == i + 1

InitRunner ==
  /\ RlpIdle
  /\ HelpersIdle
  /\ ToolsIdle
  /\ Ch12Idle
  /\ CliIdle
  /\ rArgv \in SUBSET Options
  /\ pcR = "start"
  /\ loopAt = 0
  /\ results = <<>>
  /\ spawned = <<>>
  /\ child = 0
  /\ confirmed = FALSE
  /\ allCompleted = FALSE
  /\ runnerUsage = FALSE
  /\ runnerExit = -1
  /\ answer = "none"
  /\ summaryPrinted = FALSE

\* runChallenge, lines 46-60: spawn("npx", ["tsx", script, "--local"?])
StartChild(i, res) ==
  /\ spawned' = Append(spawned, [number |-> CHALLENGES[i],
                                 args |-> rArgv \cap {"--local"}])
  /\ child' = CHALLENGES[i]
  /\ loopAt' = i
  /\ pcR' = "running"
  /\ results' = res
  /\ UNCHANGED <<allCompleted, runnerExit, summaryPrinted>>

\* lines 206-242: the summary and process.exit(failCount > 0 ? 1 : 0)
Summarize(res) ==
  LET successCount == Cardinality({i \in DOMAIN res : res[i].success})
      failCount == Cardinality({i \in DOMAIN res : ~res[i].success})
  IN /\ summaryPrinted' = TRUE
     /\ allCompleted' = (successCount = Len(CHALLENGES))
     /\ runnerExit' = IF failCount > 0 THEN 1 ELSE 0
     /\ pcR' = "exited"
     /\ results' = res
     /\ child' = 0
     /\ UNCHANGED <<spawned, loopAt>>

\* the for loop goes on: the next challenge, or the end of the loop
Proceed(res) ==
  IF loopAt < Len(CHALLENGES) THEN StartChild(nextChallenge(loopAt), res) ELSE Summarize(res)

\* lines 154-203: the promise of runChallenge resolved with success
Resolve(success) ==
  LET res == Append(results, [number |-> CHALLENGES[loopAt], success |-> success])
  IN IF success THEN Proceed(res)
     ELSE IF aborts(CHALLENGES[loopAt]) THEN Summarize(res)
     ELSE /\ results' = res
          /\ pcR' = "prompt"
          /\ child' = 0
          /\ UNCHANGED <<spawned, loopAt, allCompleted, runnerExit, summaryPrinted>>

\* lines 246-271, 274-279 and 119-140: the help check, then the SIGINT
\* handler is installed and main() prints the list and asks to confirm
RunnerStart ==
  /\ pcR = "start"
  /\ IF rArgv \cap {"--help", "-h"} # {}
     THEN runnerUsage' = TRUE /\ pcR' = "exited" /\ runnerExit' = 0
     ELSE pcR' = "confirm" /\ UNCHANGED <<runnerUsage, runnerExit>>
  /\ UNCHANGED <<rArgv, loopAt, results, spawned, child, confirmed, allCompleted,
                 answer, summaryPrinted>>
  /\ UNCHANGED <<rlpVars, helperVars, ch12Vars, cliVars, toolVars>>

\* lines 140-154: the answer to the confirmation; the first child on yes
Confirm ==
  /\ pcR = "confirm"
  /\ \E a \in Answers :
       IF accepted(a)
       THEN confirmed' = TRUE /\ StartChild(1, results)
       ELSE /\ pcR' = "exited"
            /\ runnerExit' = 0
            /\ UNCHANGED <<confirmed, loopAt, results, spawned, child, allCompleted,
                           summaryPrinted>>
  /\ UNCHANGED <<rArgv, runnerUsage, answer>>
  /\ UNCHANGED <<rlpVars, helperVars, ch12Vars, cliVars, toolVars>>

\* lines 62-70: the child closed with an exit code
ChildClose ==
  /\ pcR = "running"
  /\ \E code \in ChildCodes : Resolve(code = 0)
  /\ UNCHANGED <<rArgv, confirmed, runnerUsage, answer>>
  /\ UNCHANGED <<rlpVars, helperVars, ch12Vars, cliVars, toolVars>>

\* lines 72-75: the child could not be spawned
ChildError ==
  /\ pcR = "running"
  /\ Resolve(FALSE)
  /\ UNCHANGED <<rArgv, confirmed, runnerUsage, answer>>
  /\ UNCHANGED <<rlpVars, helperVars, ch12Vars, cliVars, toolVars>>

\* lines 168-202: the answer to 'Continue?' after a failure of 10-12
Prompt ==
  /\ pcR = "prompt"
  /\ \E a \in Answers :
       /\ answer' = a
       /\ IF accepted(a) THEN Proceed(results) ELSE Summarize(results)
  /\ UNCHANGED <<rArgv, confirmed, runnerUsage>>
  /\ UNCHANGED <<rlpVars, helperVars, ch12Vars, cliVars, toolVars>>

\* lines 274-277: SIGINT while the runner waits: process.exit(0)
Interrupt ==
  /\ pcR \in {"confirm", "running", "prompt"}
  /\ pcR' = "exited"
  /\ runnerExit' = 0
  /\ UNCHANGED <<rArgv, loopAt, results, spawned, child, confirmed, allCompleted,
                 runnerUsage, answer, summaryPrinted>>
  /\ UNCHANGED <<rlpVars, helperVars, ch12Vars, cliVars, toolVars>>

NextRunner ==
  \/ RunnerStart
  \/ Confirm
  \/ ChildClose
  \/ ChildError
  \/ Prompt
  \/ Interrupt

SpecRunner == InitRunner /\ [][NextRunner]_vars

-----------------------------------------------------------------------------
(* Properties of the runner, checked under SpecRunner *)

allSucceeded ==
  Len(results) = Len(CHALLENGES) /\ \A i \in DOMAIN results : results[i].success

\* C18: the children are spawned in the order 1, 2, ..., each challenge at most
\* once; a child is spawned only when every earlier child is recorded, so at
\* most one runs at a time; and the recorded results are a prefix of 1..12,
\* one entry per finished challenge.
C18_SequentialPrefix ==
  /\ \A i \in DOMAIN spawned : spawned[i].number = i
  /\ Len(spawned) <= Len(CHALLENGES)
  /\ \A i \in DOMAIN results : results[i].number = i
  /\ IF child # 0
     THEN child = Len(spawned) /\ Len(results) = Len(spawned) - 1
     ELSE Len(results) = Len(spawned)

\* C18 as a step property: a spawn happens only in a step from a state where
\* no other child is unrecorded, and it spawns the challenge after the last
\* recorded one
C18_SpawnAfterClose ==
  [][Len(spawned') > Len(spawned)
       => /\ Len(spawned') = Len(spawned) + 1
          /\ Len(results') = Len(spawned)
          /\ spawned'[Len(spawned')].number = Len(results') + 1]_vars

\* C18 witness: the child of challenge 12 runs after eleven recorded results,
\* one of them a failure the operator chose to continue after
C18_Witness ==
  /\ child = 12
  /\ Len(results) = 11
  /\ ~results[10].success

\* C19: after the operator confirmed, the runner has ended with exit code 0
\* exactly when all 12 challenges were run and every child exited with 0, and
\* it printed 'All challenges completed' exactly then; it has ended with exit
\* code 1 when a recorded result is a failure; declining the confirmation ends
\* with exit code 0 and no child spawned.
C19_RunnerResult ==
  /\ (pcR = "exited" /\ confirmed)
       => /\ (runnerExit = 0 <=> allSucceeded)
          /\ (allCompleted <=> allSucceeded)
          /\ (\E i \in DOMAIN results : ~results[i].success) => runnerExit = 1
  /\ (pcR = "exited" /\ ~confirmed) => (runnerExit = 0 /\ spawned = <<>>)

-----------------------------------------------------------------------------
(* The block deadline of Challenge 12, checked under SpecCh12 *)

\* C20: under any interleaving of the script's steps with block production,
\* no mintFlag transaction is submitted at a chain height greater than
\* preMintBlock + 256; past that height the run has ended as failed.
C20_NoMintPastDeadline ==
  \A i \in DOMAIN calls :
    calls[i].op = "mintFlag" => calls[i].at <= preMintBlock + Deadline

-----------------------------------------------------------------------------
(* Step order of the Challenge 12 script, checked under SpecCh12 *)

\* the index of the last bruteforceRLP call before position i of calls, 0 if none
lastBruteBefore(i) ==
  LET js == {j \in 1..(i - 1) : calls[j].op = "bruteforceRLP"}
  IN IF js = {} THEN 0 ELSE CHOOSE j \in js : \A k \in js : k <= j

-----------------------------------------------------------------------------
(* The block wait of production mode, checked under SpecCh12Live *)

\* C22: a wait for the target block ends: the watcher is unsubscribed and
\* bruteforceRLP is invoked; and a step leaves the wait only to the
\* reconstruction, with the height it observed at or above the target.
C22_WaitEnds ==
  /\ (pc12 = "watching")
       ~> (CallsOf("unwatch") # <<>> /\ CallsOf("bruteforceRLP") # <<>>)
  /\ [][(pc12 = "watching" /\ pc12' # "watching")
          => /\ pc12' = "brute"
             /\ currentBlock' >= targetBlock
             /\ calls' = Append(calls, Call("unwatch", height, 0))]_vars

\* C22 witness: a production run whose wait has ended after a block number
\* below the target had been delivered
C22_Witness ==
  /\ ~isLocal
  /\ CallsOf("unwatch") # <<>>
  /\ CallsOf("bruteforceRLP") # <<>>
  /\ produced >= 2

-----------------------------------------------------------------------------
(* The abort rule of the runner, checked under SpecRunner *)

\* a failure is recorded for one of the challenges 1-9
criticalFailure ==
  \E i \in DOMAIN results : ~results[i].success /\ results[i].number <= 9

\* C23: once a failure of a challenge 1-9 is recorded the runner has ended with
\* the summary printed, the failed challenge is the last one spawned and no
\* 'Continue?' was answered; when the latest recorded result is a failure, a
\* challenge is spawned only by the step that takes an answer y or yes (in any
\* case) to 'Continue?' after a failure of 10-12; any other answer ends the
\* run in that step, with the summary printed and nothing spawned.
C23_AbortRule ==
  /\ [](criticalFailure
          => /\ pcR = "exited"
             /\ summaryPrinted
             /\ Len(spawned) = Len(results)
             /\ answer = "none")
  /\ [][(Len(spawned') > Len(spawned) /\ results' # <<>>
           /\ ~results'[Len(results')].success)
          => /\ pcR = "prompt"
             /\ results' = results
             /\ results[Len(results)].number \in 10..12
             /\ accepted(answer')]_vars
  /\ [][(pcR = "prompt" /\ answer' # answer /\ ~accepted(answer'))
          => /\ pcR' = "exited"
             /\ summaryPrinted'
             /\ spawned' = spawned]_vars

\* C23 witness: challenge 11 was spawned after the failure of challenge 10 and
\* the run ended, with the summary, on the answer n after the failure of 11
C23_Witness ==
  /\ Len(results) = 11
  /\ ~results[10].success
  /\ ~results[11].success
  /\ Len(spawned) = 11
  /\ answer = "n"
  /\ pcR = "exited"
  /\ summaryPrinted

\* C23 witness of the other case: the run ended at the failure of challenge 9
C23_CriticalWitness ==
  /\ Len(results) = 9
  /\ ~results[9].success
  /\ pcR = "exited"

-----------------------------------------------------------------------------
(* The CREATE2 salt search of Challenge 11 (solveChallenge11.ts, lines      *)
(* 168-240): the loop over the salts, the deployment of Caller through the *)
(* factory and the call of run().  keccak256 is an ideal hash: the last    *)
(* byte of the address of each salt is an input.                           *)

\* the loop bound of line 178, 1_000_000 in the code
SaltLimit == 3

\* last bytes the wallet address and the CREATE2 addresses are drawn from
WalletBytes == {0, 4, 21, 255}
AddrBytes == {0, 4, 21, 234}

\* line 170: const mask = 0x15
mask11 == 21

\* a & b of two bytes
and8(a, b) ==
  LET bit(x, k) == (x \div (2 ^ k)) % 2
      sum[k \in 0..8] ==
        IF k = 8 THEN 0 ELSE bit(a, k) * bit(b, k) * (2 ^ k) + sum[k + 1]
  IN sum[0]

\* line 171: wantBits = parseInt(address.slice(-2), 16) & mask
wantBits == and8(walletLastByte, mask11)

\* variant of addrBitsOf: the last byte is compared unmasked
addrBitsUnmasked(salt) == addrLastByte[salt + 1]

\* lines 179-181: addrBits of create2Addr(factoryAddress, toHex(i), initCodeHash)
addrBitsOf(salt) == and8(addrLastByte[salt + 1], mask11)

Exit11(code) == pc11' = "exited" /\ exit11' = code

InitSalt ==
  /\ RlpIdle
  /\ HelpersIdle
  /\ ScriptsIdle
  /\ ScanIdle
  /\ GasIdle
  /\ ReentIdle
  /\ MaskIdle
  /\ walletLastByte \in WalletBytes
  /\ addrLastByte \in [1..SaltLimit -> AddrBytes]
  /\ saltAt = 0
  /\ saltsTried = <<>>
  /\ foundSalt = -1
  /\ foundAddr = -1
  /\ sent11 = <<>>
  /\ deployStatus = "none"
  /\ pc11 = "search"
  /\ exit11 = -1

\* lines 178-193: one iteration of the loop that finds or goes on
TrySalt ==
  /\ pc11 = "search"
  /\ saltAt < SaltLimit
  /\ saltsTried' = Append(saltsTried, saltAt)
  /\ IF addrBitsOf(saltAt) = wantBits
     THEN /\ foundSalt' = saltAt
          /\ foundAddr' = saltAt
          /\ pc11' = "found"
          /\ UNCHANGED saltAt
     ELSE /\ saltAt' = saltAt + 1
          /\ UNCHANGED <<foundSalt, foundAddr, pc11>>
  /\ UNCHANGED <<walletLastByte, addrLastByte, sent11, deployStatus, exit11>>
  /\ UNCHANGED saltRest

\* line 178: the loop ends at i = 1_000_000
SearchEnd ==
  /\ pc11 = "search"
  /\ saltAt >= SaltLimit
  /\ pc11' = "found"
  /\ UNCHANGED <<walletLastByte, addrLastByte, saltAt, saltsTried, foundSalt, foundAddr,
                 sent11, deployStatus, exit11>>
  /\ UNCHANGED saltRest

\* lines 201-213: the check of foundSalt and foundAddr, then
\* factoryContract.write.deploy([foundSalt, CALLER_BYTECODE]), which may throw
DeployCaller ==
  /\ pc11 = "found"
  /\ IF foundSalt = -1 \/ foundAddr = -1
     THEN Exit11(1) /\ UNCHANGED sent11
     ELSE /\ sent11' = Append(sent11, [op |-> "deploy", salt |-> foundSalt])
          /\ \/ pc11' = "deploy_receipt" /\ UNCHANGED exit11
             \/ Exit11(1)
  /\ UNCHANGED <<walletLastByte, addrLastByte, saltAt, saltsTried, foundSalt, foundAddr,
                 deployStatus>>
  /\ UNCHANGED saltRest

\* lines 216-222: the receipt of deploy; a status other than success throws
DeployReceipt ==
  /\ pc11 = "deploy_receipt"
  /\ \E st \in {"success", "reverted"} :
       /\ deployStatus' = st
       /\ IF st # "success" THEN Exit11(1) ELSE pc11' = "run" /\ UNCHANGED exit11
  /\ UNCHANGED <<walletLastByte, addrLastByte, saltAt, saltsTried, foundSalt, foundAddr,
                 sent11>>
  /\ UNCHANGED saltRest

\* lines 229-236: callerContract at foundAddr, write.run([CHALLENGE11_ADDRESS])
RunCaller ==
  /\ pc11 = "run"
  /\ sent11' = Append(sent11, [op |-> "run", salt |-> foundAddr])
  /\ \E code \in {0, 1} : Exit11(code)
  /\ UNCHANGED <<walletLastByte, addrLastByte, saltAt, saltsTried, foundSalt, foundAddr,
                 deployStatus>>
  /\ UNCHANGED saltRest

NextSalt ==
  \/ TrySalt
  \/ SearchEnd
  \/ DeployCaller
  \/ DeployReceipt
  \/ RunCaller

SpecSalt == InitSalt /\ [][NextSalt]_vars

\* the CREATE2 address of the salt agrees with the wallet in bits 0, 2 and 4
\* of the last byte
qualifies(salt) ==
  \A k \in {0, 2, 4} :
    (addrLastByte[salt + 1] \div (2 ^ k)) % 2 = (walletLastByte \div (2 ^ k)) % 2

qualifying == {i \in 0..(SaltLimit - 1) : qualifies(i)}

\* C24: the salts are tried in the order 0, 1, 2, ...; a chosen salt is the
\* smallest qualifying one below the limit; deploy is sent only with it, once;
\* run is sent only to the address predicted for it and only after the receipt
\* of deploy had the status success; if no salt qualifies nothing is sent.
C24_SaltSearch ==
  /\ \A k \in DOMAIN saltsTried : saltsTried[k] = k - 1
  /\ foundSalt # -1
       => /\ foundSalt \in qualifying
          /\ \A j \in qualifying : foundSalt <= j
          /\ foundAddr = foundSalt
  /\ pc11 \notin {"search"} /\ qualifying # {} => foundSalt # -1
  /\ \A k \in DOMAIN sent11 :
       /\ qualifying # {}
       /\ sent11[k].salt = CHOOSE i \in qualifying : \A j \in qualifying : i <= j
       /\ sent11[k].op = IF k = 1 THEN "deploy" ELSE "run"
       /\ sent11[k].op = "run" => deployStatus = "success"
  /\ Len(sent11) <= 2
  /\ qualifying = {} => sent11 = <<>>

\* C24 witness: run() was sent after two salts that do not qualify
C24_Witness ==
  /\ foundSalt = 2
  /\ Len(sent11) = 2
  /\ sent11[2].op = "run"

\* C24 witness of the other case: the search ended without a salt
C24_NoneWitness ==
  /\ pc11 = "exited"
  /\ qualifying = {}
  /\ Len(saltsTried) = SaltLimit

-----------------------------------------------------------------------------
(* The reentrancy contracts of Challenge 5: Challenge5Attacker and          *)
(* Challenge5Solution, against a target whose claimPoints calls back its   *)
(* caller every time.  A transaction is followed frame by frame; a revert  *)
(* (out of gas, or the target reverting) restores the storage.             *)

\* attack() transactions followed
MaxAttacks == 3

Contracts5 == {"Attacker", "Solution"}

\* variant of attackerReenters: one more reentry
attackerReentersAtNine(c) == c < 10

\* Challenge5Attacker, lines 22 and 31: if (counter < 9)
attackerReenters(c) == c < 9

\* Challenge5Solution, lines 26 and 33: if (counter < 10), after counter++
solutionReenters(c) == c < 10

InitReent ==
  /\ RlpIdle
  /\ HelpersIdle
  /\ ScriptsIdle
  /\ ScanIdle
  /\ GasIdle
  /\ SaltIdle
  /\ MaskIdle
  /\ contract5 \in Contracts5
  /\ counter = 0
  /\ counterBefore = 0
  /\ depth5 = 0
  /\ claims5 = 0
  /\ fromCallback5 = 0
  /\ pc5 = "ready"
  /\ last5 = "none"
  /\ attacks5 = 0

\* attack(): counter = 0, then the direct call of claimPoints
Attack ==
  /\ pc5 = "ready"
  /\ attacks5 < MaxAttacks
  /\ attacks5' = attacks5 + 1
  /\ counterBefore' = counter
  /\ counter' = 0
  /\ claims5' = 1
  /\ fromCallback5' = 0
  /\ depth5' = 1
  /\ pc5' = "inTarget"
  /\ last5' = "running"
  /\ UNCHANGED contract5
  /\ UNCHANGED reentRest

\* the target calls back: receive() or fallback() of the contract runs and
\* either calls claimPoints again or returns
CallBack ==
  /\ pc5 = "inTarget"
  /\ IF contract5 = "Attacker"
     THEN IF attackerReenters(counter)
          THEN /\ counter' = counter + 1
               /\ claims5' = claims5 + 1
               /\ fromCallback5' = fromCallback5 + 1
               /\ depth5' = depth5 + 1
               /\ UNCHANGED pc5
          ELSE /\ pc5' = "returning"
               /\ UNCHANGED <<counter, claims5, fromCallback5, depth5>>
     ELSE /\ counter' = counter + 1
          /\ IF solutionReenters(counter + 1)
             THEN /\ claims5' = claims5 + 1
                  /\ fromCallback5' = fromCallback5 + 1
                  /\ depth5' = depth5 + 1
                  /\ UNCHANGED pc5
             ELSE /\ pc5' = "returning"
                  /\ UNCHANGED <<claims5, fromCallback5, depth5>>
  /\ UNCHANGED <<contract5, counterBefore, last5, attacks5>>
  /\ UNCHANGED reentRest

\* a claimPoints frame returns; with the last one attack() ends
Return5 ==
  /\ pc5 = "returning"
  /\ depth5' = depth5 - 1
  /\ IF depth5 = 1
     THEN pc5' = "ready" /\ last5' = "completed"
     ELSE UNCHANGED <<pc5, last5>>
  /\ UNCHANGED <<contract5, counter, counterBefore, claims5, fromCallback5, attacks5>>
  /\ UNCHANGED reentRest

\* the transaction reverts: the storage is as before it
Revert5 ==
  /\ pc5 \in {"inTarget", "returning"}
  /\ counter' = counterBefore
  /\ depth5' = 0
  /\ pc5' = "ready"
  /\ last5' = "reverted"
  /\ UNCHANGED <<contract5, counterBefore, claims5, fromCallback5, attacks5>>
  /\ UNCHANGED reentRest

NextReent ==
  \/ Attack
  \/ CallBack
  \/ Return5
  \/ Revert5

SpecReent == InitReent /\ [][NextReent]_vars

\* C25: an attack() that ran to its end made exactly 10 claimPoints calls, 1
\* direct and 9 from the callback; no attack() makes more; during an attack()
\* the counter counts from 0; it never exceeds 9 in Challenge5Attacker and
\* never exceeds 10 in Challenge5Solution.
C25_BoundedReentrancy ==
  /\ last5 = "completed" => claims5 = 10 /\ fromCallback5 = 9
  /\ claims5 <= 10
  /\ claims5 = IF last5 = "none" THEN 0 ELSE fromCallback5 + 1
  /\ last5 = "running"
       => /\ depth5 <= claims5
          /\ counter >= fromCallback5
          /\ counter <= fromCallback5 + 1
  /\ contract5 = "Attacker" => counter <= 9
  /\ contract5 = "Solution" => counter <= 10

\* C25 witness: a second attack() of Challenge5Solution has run to its end
C25_Witness ==
  /\ contract5 = "Solution"
  /\ attacks5 = 2
  /\ last5 = "completed"
  /\ counter = 10

\* C25 witness for the other contract
C25_AttackerWitness ==
  /\ contract5 = "Attacker"
  /\ attacks5 = 2
  /\ last5 = "completed"
  /\ counter = 9

-----------------------------------------------------------------------------
(* The password mask of Challenge 9 (solveChallenge12.ts, lines 677-711).   *)
(* A bigint is held in two's complement as [ext, digs]: digs are its bytes, *)
(* least significant first, and ext (0 or 255) is every byte above them.   *)

\* the counts tried have a low byte of 0..MaxCount
MaxCount == 40

Wide(e, ds) == [ext |-> e, digs |-> ds]

\* byte i (1 = least significant) of a bigint
wdigit(x, i) == IF i <= Len(x.digs) THEN x.digs[i] ELSE x.ext

\* BigInt("0x...") of a hex string given as its bytes, most significant first
BigIntOfBytes(bs) == Wide(0, [i \in 1..Len(bs) |-> bs[Len(bs) + 1 - i]])

\* x % 32n of a bigint that is not negative
mod32(x) == wdigit(x, 1) % 32

\* x << bits, bits a multiple of 8
wideShl(x, bits) == Wide(x.ext, [i \in 1..(bits \div 8) |-> 0] \o x.digs)

\* ~x
wideNot(x) == Wide(255 - x.ext, [i \in DOMAIN x.digs |-> 255 - x.digs[i]])

\* x & y
wideAnd(x, y) ==
  LET n == IF Len(x.digs) >= Len(y.digs) THEN Len(x.digs) ELSE Len(y.digs)
  IN Wide(and8(x.ext, y.ext), [i \in 1..n |-> and8(wdigit(x, i), wdigit(y, i))])

\* (1n << 256n) - 1n
ones256 == Wide(0, [i \in 1..32 |-> 255])

\* x.toString(16) of a bigint that is not negative
wideToString16(x) ==
  LET n == Len(x.digs)
      nibbles == [k \in 1..(2 * n) |->
                    LET b == x.digs[n + 1 - ((k + 1) \div 2)]
                    IN IF k % 2 = 1 THEN b \div 16 ELSE b % 16]
      nonzero == {k \in 1..(2 * n) : nibbles[k] # 0}
      first == IF nonzero = {} THEN 2 * n + 1
               ELSE CHOOSE k \in nonzero : \A j \in nonzero : k <= j
  IN IF nonzero = {} THEN <<HexDigit(0)>>
     ELSE [k \in 1..(2 * n + 1 - first) |-> HexDigit(nibbles[first + k - 1])]

\* s.padStart(64, "0")
padStart64(cs) ==
  IF Len(cs) >= 64 THEN cs ELSE [i \in 1..(64 - Len(cs)) |-> HexDigit(0)] \o cs

\* variant of shiftBitsOf: the byte is counted from the least significant end
shiftBitsFromLow(count) == mod32(count) * 8

\* line 682: shiftBits = (31n - (count % 32n)) * 8n
shiftBitsOf(count) == (31 - mod32(count)) * 8

\* lines 687-693: ffShifted, mask, mask32Bytes
mask32BytesOf(count) ==
  LET ffShifted == wideShl(Wide(0, <<255>>), shiftBitsOf(count))
      maskAll == wideNot(ffShifted)
  IN wideAnd(maskAll, ones256)

\* lines 697-698: maskedPassword = BigInt(passwordSlot) & mask32Bytes
maskedPasswordOf(password, count) ==
  wideAnd(BigIntOfBytes(password), mask32BytesOf(BigIntOfBytes(count)))

\* line 706: "0x" + maskedPassword.toString(16).padStart(64, "0")
maskedPasswordBytes32(password, count) ==
  <<48, 120>> \o padStart64(wideToString16(maskedPasswordOf(password, count)))

\* the slot contents tried
Passwords9 ==
  { [i \in 1..32 |-> 255],
    [i \in 1..32 |-> 0],
    [i \in 1..32 |-> i],
    [i \in 1..32 |-> IF i <= 3 THEN 0 ELSE 171],
    [i \in 1..32 |-> IF i = 32 THEN 1 ELSE 0] }

Counts9 ==
  { [i \in 1..32 |-> IF i = 32 THEN n ELSE 0] : n \in 0..MaxCount }
  \cup { [i \in 1..32 |-> 255], [i \in 1..32 |-> IF i = 1 THEN 1 ELSE IF i = 32 THEN 7 ELSE 0] }

InitMask ==
  /\ RlpIdle
  /\ HelpersIdle
  /\ ScriptsIdle
  /\ ScanIdle
  /\ GasIdle
  /\ SaltIdle
  /\ ReentIdle
  /\ passwordSlot \in Passwords9
  /\ countSlot \in Counts9
  /\ sent9 = <<>>
  /\ pc9 = "mask"

\* lines 677-711: the mask, the masked password, and mintFlag with it
MaskAndSend ==
  /\ pc9 = "mask"
  /\ sent9' = maskedPasswordBytes32(passwordSlot, countSlot)
  /\ pc9' = "receipt"
  /\ UNCHANGED <<passwordSlot, countSlot>>
  /\ UNCHANGED maskRest

\* lines 714-718: the receipt of mintFlag, or an error thrown while waiting
MintReceipt9 ==
  /\ pc9 = "receipt"
  /\ \E st \in {"success", "reverted", "error"} :
       pc9' = IF st = "success" THEN "check" ELSE "failed"
  /\ UNCHANGED <<passwordSlot, countSlot, sent9>>
  /\ UNCHANGED maskRest

NextMask ==
  \/ MaskAndSend
  \/ MintReceipt9

SpecMask == InitMask /\ [][NextMask]_vars

\* the byte of the password that is zeroed: count mod 32, 0 the most
\* significant (256 is a multiple of 32, so the low byte of count decides)
zeroedIndex == countSlot[32] % 32

\* the password with that byte zeroed, as 64 hex digits after "0x"
expected9 ==
  <<48, 120>> \o
  [k \in 1..64 |->
     LET i == (k + 1) \div 2
         b == IF i - 1 = zeroedIndex THEN 0 ELSE passwordSlot[i]
     IN HexDigit(IF k % 2 = 1 THEN b \div 16 ELSE b % 16)]

\* C26: the argument of mintFlag is the password with the byte of index
\* count mod 32 (0 = most significant) zeroed and every other byte kept, written
\* as "0x" and exactly 64 hex digits, so a value in [0, 2^256).
C26_MaskedPassword ==
  sent9 # <<>>
    => /\ Len(sent9) = 66
       /\ sent9 = expected9
       /\ \A k \in 3..66 : charCodeToBase16(sent9[k]) \in 0..15

\* C26 witness: a password with leading zero bytes was sent with a byte
\* other than the first and the last zeroed
C26_Witness ==
  /\ sent9 # <<>>
  /\ passwordSlot[1] = 0
  /\ passwordSlot[32] = 171
  /\ zeroedIndex = 7
  /\ countSlot[32] = 39

-----------------------------------------------------------------------------
(* Repetition of candidates in bruteforceRLP, checked under Spec *)

\* C27 (as claimed): no inclusion pattern is encoded and hashed twice within
\* one call, and a call that returned null has hashed exactly 2^k candidates,
\* k the number of available optional fields.
C27_EachPatternOnce ==
  /\ \A i, j \in DOMAIN attempts : i # j => attempts[i] # attempts[j]
  /\ result = NotFoundResult
       => Len(attempts) = 2 ^ Len(availableOptionalFields)

-----------------------------------------------------------------------------
(* The final attempts of Challenge 6 (solveChallenge6.ts, lines 266-324)    *)
(* with Challenge6Solution.solveWithGas (Challenge6Solution.sol, 31-54).   *)
(* Which gas limits let Challenge6.mintFlag succeed is an input.           *)

\* lines 267-273: finalGasLimits, as offsets from optimalGasLimit
FinalOffsets == <<-1000, -500, 0, 500, 1000>>

finalGasLimits == [i \in 1..Len(FinalOffsets) |-> optimalGasLimit + FinalOffsets[i]]

\* values of optimalGasLimit after step 1: found by the search, or estimated
OptimalLimits == {196500, 200000}

\* variant of outerStatus: solveWithGas reverts when the inner call failed
outerStatusStrict(countOk, inner) == IF countOk /\ inner THEN "success" ELSE "reverted"

\* Challenge6Solution.solveWithGas, lines 36-53: require(success1) reverts
\* when count() cannot be read; the result of the inner call is only stored
outerStatus(countOk, inner) == IF countOk THEN "success" ELSE "reverted"

InitGas ==
  /\ RlpIdle
  /\ HelpersIdle
  /\ ScriptsIdle
  /\ ScanIdle
  /\ SaltIdle
  /\ ReentIdle
  /\ MaskIdle
  /\ optimalGasLimit \in OptimalLimits
  /\ innerSucceeds \in [1..Len(FinalOffsets) -> BOOLEAN]
  /\ gasAt = 1
  /\ tried6 = <<>>
  /\ solveStatus = "none"
  /\ success6 = FALSE
  /\ minted6 = FALSE
  /\ declared6 = FALSE
  /\ pc6 = "send"
  /\ exit6 = -1

\* the catch of lines 311-319 for an error other than already-minted, and
\* the else branch of line 308: the loop goes on with the next gas limit
NextLimit == pc6' = "send" /\ gasAt' = gasAt + 1

\* lines 275-290: getTransactionCount and write.solveWithGas([gasLimit]);
\* either may throw; a transaction sent runs solveWithGas on the chain
SolveWithGas ==
  /\ pc6 = "send"
  /\ gasAt <= Len(finalGasLimits)
  /\ \/ /\ NextLimit
        /\ UNCHANGED <<tried6, solveStatus, success6, minted6>>
     \/ /\ tried6' = Append(tried6, finalGasLimits[gasAt])
        /\ \E countOk \in BOOLEAN :
             LET inner == innerSucceeds[gasAt] /\ ~minted6
                 st == outerStatus(countOk, inner)
             IN /\ solveStatus' = st
                /\ success6' = IF st = "success" THEN inner ELSE success6
                /\ minted6' = (minted6 \/ (st = "success" /\ inner))
        /\ pc6' = "receipt"
        /\ UNCHANGED gasAt
  /\ UNCHANGED <<optimalGasLimit, innerSucceeds, declared6, exit6>>
  /\ UNCHANGED gasRest

\* lines 291-310: the receipt; status success declares the challenge complete
\* and returns; waiting for the receipt may throw
SolveReceipt ==
  /\ pc6 = "receipt"
  /\ \/ IF solveStatus = "success"
        THEN /\ declared6' = TRUE
             /\ pc6' = "exited"
             /\ exit6' = 0
             /\ UNCHANGED gasAt
        ELSE NextLimit /\ UNCHANGED <<declared6, exit6>>
     \/ NextLimit /\ UNCHANGED <<declared6, exit6>>
  /\ UNCHANGED <<optimalGasLimit, innerSucceeds, tried6, solveStatus, success6, minted6>>
  /\ UNCHANGED gasRest

\* lines 322-324: every attempt failed, process.exit(1)
AllFailed ==
  /\ pc6 = "send"
  /\ gasAt > Len(finalGasLimits)
  /\ pc6' = "exited"
  /\ exit6' = 1
  /\ UNCHANGED <<optimalGasLimit, innerSucceeds, gasAt, tried6, solveStatus, success6,
                 minted6, declared6>>
  /\ UNCHANGED gasRest

NextGas ==
  \/ SolveWithGas
  \/ SolveReceipt
  \/ AllFailed

SpecGas == InitGas /\ [][NextGas]_vars

\* C28 (as claimed): the challenge is declared complete only if the inner
\* Challenge6.mintFlag call of the transaction counted succeeded; the gas
\* limits are tried in the order optimal - 1000, - 500, + 0, + 500, + 1000, at
\* most once each; and when none is counted the exit code is 1.
C28_CompleteOnlyIfMinted ==
  /\ declared6 => success6 /\ minted6
  /\ Len(tried6) <= Len(finalGasLimits)
  /\ \A i, j \in DOMAIN tried6 :
       i < j => \E a, b \in DOMAIN finalGasLimits :
                  a < b /\ tried6[i] = finalGasLimits[a] /\ tried6[j] = finalGasLimits[b]
  /\ (pc6 = "exited" /\ ~declared6) => exit6 = 1

-----------------------------------------------------------------------------
(* When preMintFlag is sent, checked under SpecCh12 *)

\* C29: preMintFlag is sent at most once in a run; the step that sends it is
\* taken only when the recorded block read at the start is 0 or the height
\* read after it is above that block + 256; and the run comes to the mint
\* step without having sent it only with a recorded block that is not 0 and
\* was within the deadline at that read, and then uses that block.
C29_PreMintOnlyWhenNeeded ==
  /\ [](Len(CallsOf("preMintFlag")) <= 1)
  /\ [][calls' # calls /\ calls'[Len(calls')].op = "preMintFlag"
          => /\ preMintBlock = recorded
             /\ \/ preMintBlock = 0
                \/ currentBlock > preMintBlock + Deadline]_vars
  /\ []((pc12 = "mint_height" /\ CallsOf("preMintFlag") = <<>>)
          => /\ preMintBlock # 0
             /\ preMintBlock = recorded
             /\ currentBlock <= preMintBlock + Deadline)
  /\ [](CallsOf("preMintFlag") = <<>>
          => \A i \in DOMAIN calls :
               calls[i].op = "bruteforceRLP" => calls[i].arg = preMintBlock + TargetOffset)

\* C29 witness: preMintFlag was sent for a recorded block whose deadline had
\* expired
C29_Witness ==
  /\ pc12 = "pre_receipt"
  /\ preMintBlock # 0
  /\ CallsOf("preMintFlag") # <<>>

\* C29 witness of the other case: mintFlag was sent in a run that used the
\* existing recorded block
C29_ExistingWitness ==
  /\ CallsOf("preMintFlag") = <<>>
  /\ CallsOf("mintFlag") # <<>>

-----------------------------------------------------------------------------
(* The Transfer-log scan of Challenge 10 (solveChallenge10.ts, lines        *)
(* 176-375): the ranges asked of getLogs, the retry in smaller ranges, the *)
(* identification of the two tokens and safeTransferFrom.                  *)

\* line 178: the default of lookbackBlocks
DefaultLookback == 5000000

\* line 179: the start of the scan when the chain is shorter than the lookback
FallbackDeployBlock == 118000000

\* line 180: chunkSize of a local run and of a production run
LocalChunk == 500000
ProductionChunk == 10000

\* line 234: smallerChunkSize
smallerChunkSize == 1000

\* line 179
deployBlock ==
  IF isLocal10 THEN 0
  ELSE IF currentBlock10 > lookbackBlocks THEN currentBlock10 - lookbackBlocks
  ELSE FallbackDeployBlock

\* line 180
chunkSize == IF isLocal10 THEN LocalChunk ELSE ProductionChunk

\* lines 194 and 238: from + step > last ? last : from + step
toBlockOf(from, step, last) == IF from + step > last THEN last ELSE from + step

\* the scans followed are at most MaxChunks chunks long, and at most
\* MaxFailed getLogs requests of a run fail
MaxChunks == 3
MaxFailed == 2

\* the heights and lookbacks tried
CurrentBlocks10 == {0, 3, 25000, 1200000, 118000005}
Lookbacks10 == {DefaultLookback, 25000, 20000, 3, 200000000}

\* the getLogs requests that failed so far
failed10 == Cardinality({i \in DOMAIN queried : ~queried[i].ok})

InitScan ==
  /\ RlpIdle
  /\ HelpersIdle
  /\ ScriptsIdle
  /\ SaltIdle
  /\ ReentIdle
  /\ MaskIdle
  /\ GasIdle
  /\ isLocal10 \in BOOLEAN
  /\ currentBlock10 \in CurrentBlocks10
  /\ lookbackBlocks \in Lookbacks10
  /\ isLocal10 => /\ lookbackBlocks = DefaultLookback
                  /\ currentBlock10 <= MaxChunks * LocalChunk
  /\ (~isLocal10 /\ currentBlock10 > lookbackBlocks)
       => lookbackBlocks <= MaxChunks * ProductionChunk
  /\ transfer1At \in {-1, currentBlock10}
  /\ transfer9At \in {-1, deployBlock}
  /\ fromBlock = deployBlock
  /\ smallFrom = 0
  /\ queried = <<>>
  /\ challenge1TokenId = -1
  /\ challenge9TokenId = -1
  /\ sent10 = FALSE
  /\ pc10 = "scan"
  /\ exit10 = -1

Request(from, to, ok) == [from |-> from, to |-> to, ok |-> ok]

\* lines 193-272: one getLogs request of the outer loop; on the error 'Block
\* range is too large' a production run retries the range in smaller ranges,
\* on any other error the range is skipped
GetLogs ==
  /\ pc10 = "scan"
  /\ fromBlock < currentBlock10
  /\ LET toBlock == toBlockOf(fromBlock, chunkSize, currentBlock10)
     IN \E outcome \in {"ok", "too large", "error"} :
          /\ outcome # "ok" => failed10 < MaxFailed
          /\ queried' = Append(queried, Request(fromBlock, toBlock, outcome = "ok"))
          /\ IF outcome = "too large" /\ ~isLocal10
             THEN /\ pc10' = "small"
                  /\ smallFrom' = fromBlock
                  /\ UNCHANGED fromBlock
             ELSE /\ fromBlock' = fromBlock + chunkSize
                  /\ UNCHANGED <<pc10, smallFrom>>
  /\ UNCHANGED <<isLocal10, currentBlock10, lookbackBlocks, transfer1At, transfer9At,
                 challenge1TokenId, challenge9TokenId, sent10, exit10>>
  /\ UNCHANGED scanRest

\* lines 237-265: one getLogs request of the retry loop; a failure is skipped
GetLogsSmall ==
  /\ pc10 = "small"
  /\ LET toBlock == toBlockOf(fromBlock, chunkSize, currentBlock10)
     IN /\ smallFrom < toBlock
        /\ \E ok \in BOOLEAN :
             /\ ~ok => failed10 < MaxFailed
             /\ queried' = Append(queried,
                                  Request(smallFrom,
                                          toBlockOf(smallFrom, smallerChunkSize, toBlock), ok))
        /\ smallFrom' = smallFrom + smallerChunkSize
  /\ UNCHANGED <<isLocal10, currentBlock10, lookbackBlocks, transfer1At, transfer9At,
                 fromBlock, challenge1TokenId, challenge9TokenId, sent10, pc10, exit10>>
  /\ UNCHANGED scanRest

\* line 237: the retry loop ends, the outer loop goes on
SmallEnd ==
  /\ pc10 = "small"
  /\ smallFrom >= toBlockOf(fromBlock, chunkSize, currentBlock10)
  /\ fromBlock' = fromBlock + chunkSize
  /\ pc10' = "scan"
  /\ UNCHANGED <<isLocal10, currentBlock10, lookbackBlocks, transfer1At, transfer9At,
                 smallFrom, queried, challenge1TokenId, challenge9TokenId, sent10, exit10>>
  /\ UNCHANGED scanRest

\* the Transfer at block b is in the logs of a request that succeeded
logged(b) ==
  b # -1 /\ \E i \in DOMAIN queried :
              queried[i].ok /\ b >= queried[i].from /\ b <= queried[i].to

\* lines 193, 276-345: the outer loop has ended; ownerOf and
\* tokenIdToChallengeId for every logged token, then the check of both ids
\* (a token id 0 is as false as null)
Identify ==
  /\ pc10 = "scan"
  /\ fromBlock >= currentBlock10
  /\ \E id1, id9 \in {0, 7}, known1, known9 \in BOOLEAN :
       /\ challenge1TokenId' = IF logged(transfer1At) /\ known1 THEN id1 ELSE -1
       /\ challenge9TokenId' = IF logged(transfer9At) /\ known9 THEN id9 ELSE -1
  /\ IF challenge1TokenId' \in {-1, 0} \/ challenge9TokenId' \in {-1, 0}
     THEN pc10' = "exited" /\ exit10' = 1
     ELSE pc10' = "transfer" /\ UNCHANGED exit10
  /\ UNCHANGED <<isLocal10, currentBlock10, lookbackBlocks, transfer1At, transfer9At,
                 fromBlock, smallFrom, queried, sent10>>
  /\ UNCHANGED scanRest

\* lines 353-380: hasMinted(10) ends the run, else safeTransferFrom is sent
Transfer10 ==
  /\ pc10 = "transfer"
  /\ \E hasMintedChallenge10 \in BOOLEAN :
       sent10' = ~hasMintedChallenge10
  /\ pc10' = "exited"
  /\ exit10' = 0
  /\ UNCHANGED <<isLocal10, currentBlock10, lookbackBlocks, transfer1At, transfer9At,
                 fromBlock, smallFrom, queried, challenge1TokenId, challenge9TokenId>>
  /\ UNCHANGED scanRest

NextScan ==
  \/ GetLogs
  \/ GetLogsSmall
  \/ SmallEnd
  \/ Identify
  \/ Transfer10

SpecScan == InitScan /\ [][NextScan]_vars

\* every getLogs request so far succeeded
allLogsOk == \A i \in DOMAIN queried : queried[i].ok

scanEnded == pc10 \in {"transfer", "exited"}

\* the ranges cover deployBlock..currentBlock10 without a gap
noGap ==
  deployBlock <= currentBlock10
    => /\ queried # <<>>
       /\ queried[1].from = deployBlock
       /\ \A i \in 1..(Len(queried) - 1) : queried[i + 1].from <= queried[i].to + 1
       /\ queried[Len(queried)].to = currentBlock10

\* no block is in two ranges
noBlockTwice ==
  \A i, j \in DOMAIN queried :
    i < j => queried[i].to < queried[j].from

\* every range spans at most chunkSize blocks
spansAtMostChunk ==
  \A i \in DOMAIN queried : queried[i].to - queried[i].from + 1 <= chunkSize

\* safeTransferFrom only with both tokens found by the scan
sentOnlyWithBoth ==
  sent10 => /\ challenge1TokenId # -1
            /\ challenge9TokenId # -1
            /\ logged(transfer1At)
            /\ logged(transfer9At)

\* C30 (as claimed): when every getLogs request succeeded, the ranges queried
\* partition deployBlock..currentBlock (no gap, no block twice), each spans at
\* most chunkSize blocks and their number is bounded by the length of the
\* scan; safeTransferFrom is sent only with both tokens found by the scan.
C30_ScanPartition ==
  /\ (scanEnded /\ allLogsOk) => noGap
  /\ allLogsOk => noBlockTwice /\ spansAtMostChunk
  /\ Len(queried) * chunkSize <= (currentBlock10 - deployBlock) + chunkSize
       \/ ~allLogsOk \/ deployBlock > currentBlock10
  /\ sentOnlyWithBoth

====
